---- MODULE Spec2Model ----
(***************************************************************************)
(* SocialCrew AI frontend: the page's run flow (src/app/page.tsx, the      *)
(* current Home component), the streaming route                            *)
(* (src/app/api/run-backend/stream/route.ts) and the platform pieces that  *)
(* connect them (child process, ReadableStream controller, event-stream    *)
(* framing, EventSource task dispatch).                                    *)
(*                                                                         *)
(* Text is a sequence of tokens.  "LF" and "CR" are the line feed and the  *)
(* carriage return; every other token stands for a run of characters that  *)
(* holds neither.                                                          *)
(***************************************************************************)
EXTENDS Integers, Sequences, FiniteSets, TLC

\* ------------------------------------------------------------------ bounds
MaxRuns == 2        \* EventSources the page creates in one behaviour
FlowRuns == 1       \* ... in a behaviour of the specifications of one run
MaxChunks == 2      \* stdout/stderr chunks (or remote frames) per job
MaxChunkLen == 3    \* tokens per chunk in the ordering specification
MaxTasks == 1       \* message events waiting in the page's task queue
MaxChecks == 1      \* health checks in flight
MaxPosts == 2       \* posts of one platform in social_posts.json
MaxGroups == 2      \* platforms in social_posts.json
MaxFlat == 3        \* posts of a flat social_posts.json
MaxTagLen == 4      \* characters of a hashtags string
MaxTags == 2        \* tokens of a hashtags sequence
MaxLineLen == 5     \* characters of a line of backend/.env
MaxNameLen == 4     \* tokens of the name of a requested file
MaxFileGets == 1    \* requests to the file route in one behaviour

Ids == 1..MaxRuns

\* ------------------------------------------------------------------ tokens
LF == "LF"
CR == "CR"
\* the text {"status":"completed"}
TokCompleted == "{\"status\":\"completed\"}"
\* the text {"status":"failed"}
TokFailed == "{\"status\":\"failed\"}"
\* the text {"status":"failed","message":"boom"}
TokFailedMsg == "{\"status\":\"failed\",\"message\":\"boom\"}"
\* the text {"status":"running"}
TokRunning == "{\"status\":\"running\"}"

\* user-visible error values (null is NoError)
NoError == "null"
OfflineErr == "Server is offline. Click 'Wake Server' to start it."
ConnErr == "Connection error. The server might be waking up. Please try again."
BackendErr == "Backend error"
SpawnErr == "Unable to spawn CrewAI CLI or Python process"

\* ----------------------------------------------------- sequence helpers
Last(s) == s[Len(s)]

Front(s) == SubSeq(s, 1, Len(s) - 1)

RECURSIVE Concat(_)
Concat(ss) == IF ss = <<>> THEN <<>> ELSE Head(ss) \o Concat(Tail(ss))

RECURSIVE SeqsUpTo(_, _)
SeqsUpTo(S, n) ==
  IF n = 0 THEN {<<>>}
  ELSE LET shorter == SeqsUpTo(S, n - 1)
       IN shorter \cup {Append(s, x) : s \in {t \in shorter : Len(t) = n - 1}, x \in S}

\* --------------------------------------------------- stream route: text
\* d.split(/\r?\n/): the pieces between line feeds, a carriage return right
\* before a line feed belonging to the separator.
RECURSIVE SplitFrom(_, _, _)
SplitFrom(d, cur, acc) ==
  IF d = <<>> THEN Append(acc, cur)
  ELSE IF Head(d) = LF
       THEN SplitFrom(Tail(d), <<>>,
                      Append(acc, IF cur # <<>> /\ Last(cur) = CR THEN Front(cur) ELSE cur))
       ELSE SplitFrom(Tail(d), Append(cur, Head(d)), acc)

SplitLines(d) == SplitFrom(d, <<>>, <<>>)

\* forEach((line) => line && writeSse(line)): the non-empty pieces, in order
RECURSIVE NonEmptyLines(_)
NonEmptyLines(ls) ==
  IF ls = <<>> THEN <<>>
  ELSE IF Head(ls) = <<>> THEN NonEmptyLines(Tail(ls))
       ELSE <<Head(ls)>> \o NonEmptyLines(Tail(ls))

\* writeSse(line): one chunk `data: ${line}\n\n`
SseChunk(line) == <<"data: ">> \o line \o <<LF, LF>>

writeSse(line) == <<SseChunk(line)>>

\* writeEvent(event, data): two chunks, `event: ${event}\n` and `data: ${data}\n\n`
writeEvent(event, data) == <<<<"event: ">> \o event \o <<LF>>, SseChunk(data)>>

RECURSIVE WriteLines(_)
WriteLines(ls) == IF ls = <<>> THEN <<>> ELSE writeSse(Head(ls)) \o WriteLines(Tail(ls))

\* the frames of one chunk with its lines written last line first
Reverse(ls) == [i \in 1..Len(ls) |-> ls[Len(ls) + 1 - i]]

DataFramesReversed(d) == WriteLines(Reverse(NonEmptyLines(SplitLines(d))))

\* the data callback of stdout and of stderr: the chunks it enqueues for d
DataFrames(d) == WriteLines(NonEmptyLines(SplitLines(d)))

\* --------------------------------------- EventSource: event-stream parser
\* Parser state: the unfinished line, the data buffer, the event type buffer
\* and whether the last character was a carriage return.
ParserInit == [line |-> <<>>, data |-> <<>>, ev |-> <<>>, cr |-> FALSE, out |-> <<>>]

\* A finished line: blank dispatches, `data: v` and `event: v` fill the
\* buffers, anything else is ignored.
ProcessLine(p) ==
  LET l == p.line IN
  IF l = <<>>
  THEN IF p.data = <<>>
       THEN [p EXCEPT !.ev = <<>>]
       ELSE [p EXCEPT !.data = <<>>, !.ev = <<>>,
                      !.out = Append(@, [type |-> IF p.ev = <<>> THEN <<"message">> ELSE p.ev,
                                         data |-> Front(p.data)])]
  ELSE IF Head(l) = "data: " THEN [p EXCEPT !.line = <<>>, !.data = @ \o Tail(l) \o <<LF>>]
  ELSE IF Head(l) = "event: " THEN [p EXCEPT !.line = <<>>, !.ev = Tail(l)]
  ELSE [p EXCEPT !.line = <<>>]

RECURSIVE Feed(_, _)
Feed(p, chunk) ==
  IF chunk = <<>> THEN p
  ELSE LET c == Head(chunk) IN
       IF c = CR THEN Feed([ProcessLine(p) EXCEPT !.cr = TRUE], Tail(chunk))
       ELSE IF c = LF
            THEN IF p.cr THEN Feed([p EXCEPT !.cr = FALSE], Tail(chunk))
                 ELSE Feed(ProcessLine(p), Tail(chunk))
            ELSE Feed([p EXCEPT !.line = Append(@, c), !.cr = FALSE], Tail(chunk))

\* ------------------------------------------------------- page: pure parts
\* JSON.parse(evt.data).status as the message handler reads it
StatusOf(data) ==
  IF data = <<TokCompleted>> THEN "completed"
  ELSE IF data \in {<<TokFailed>>, <<TokFailedMsg>>} THEN "failed"
  ELSE "other"

\* data.message || "Backend error"
MessageOf(data) == IF data = <<TokFailedMsg>> THEN "boom" ELSE BackendErr

\* a log that puts the newest line first
prependLog(prev, line) == IF prev # <<>> THEN line \o <<LF>> \o prev ELSE line

\* appendLog: prev ? prev + "\n" + line : line
appendLog(prev, line) == IF prev # <<>> THEN prev \o <<LF>> \o line ELSE line


\* ------------------------------------------- stream route: launch inputs
\* searchParams.get returns null for a parameter the URL does not carry
Absent == <<"(null)">>

\* String.prototype.trim on the blanks of a text
RECURSIVE TrimLeft(_)
TrimLeft(t) == IF t # <<>> /\ Head(t) = " " THEN TrimLeft(Tail(t)) ELSE t

RECURSIVE TrimRight(_)
TrimRight(t) == IF t # <<>> /\ Last(t) = " " THEN TrimRight(Front(t)) ELSE t

Trim(t) == TrimRight(TrimLeft(t))

\* encodeURIComponent on the page, URL.searchParams.get on the route
EncTok(c) ==
  CASE c = " " -> "%20"
    [] c = "/" -> "%2F"
    [] c = "LF" -> "%0A"
    [] OTHER -> c

DecTok(c) == IF c = "%20" THEN " " ELSE c

encodeURIComponent(t) == [i \in 1..Len(t) |-> EncTok(t[i])]

SearchParamGet(q) == IF q = Absent THEN Absent ELSE [i \in 1..Len(q) |-> DecTok(q[i])]

\* const qp = topic ? `?topic=${encodeURIComponent(topic)}` : ""
QueryOf(t) == IF t # <<>> THEN encodeURIComponent(t) ELSE Absent

\* (url.searchParams.get("topic") || "").trim()
TopicOf(q) == LET v == SearchParamGet(q) IN Trim(IF v = Absent THEN <<>> ELSE v)

\* process.env.BACKEND_URL: unset, or the address of a remote runner
RemoteBase == <<"http://b">>

FlowUrls == {<<>>, RemoteBase}

\* backendHttp.replace(/\/$/, "")
Base(b) == IF b # <<>> /\ Last(b) = "/" THEN Front(b) ELSE b

\* `${base}/run${topic ? `?topic=${encodeURIComponent(topic)}` : ""}`
Target(b, tp) ==
  Base(b) \o <<"/run">> \o (IF tp # <<>> THEN <<"?topic=">> \o encodeURIComponent(tp) ELSE <<>>)

Crewai == <<"crewai">>
Python3 == <<"python3">>
Python == <<"python">>

\* What child_process.spawn does for one binary: it throws, it returns a
\* child that runs, or it returns a child whose start fails afterwards (the
\* failure is then emitted as the child's 'error' event, not thrown).
SpawnOutcomes == {"throws", "runs", "enoent"}

\* ------------------------------------------------ stream route: .env merge
\* the characters of a line of backend/.env: white space, the equals sign,
\* the two quotes, a letter and a digit
DQ == "\""

SQ == "'"

IsIdentStart(c) == c = "K"

IsIdent(c) == c \in {"K", "1"}

\* the length of the match of [A-Za-z_][A-Za-z0-9_]* at the start of cs
RECURSIVE IdentRun(_)
IdentRun(cs) == IF cs # <<>> /\ IsIdent(Head(cs)) THEN 1 + IdentRun(Tail(cs)) ELSE 0

\* line.match(/^\s*([A-Za-z_][A-Za-z0-9_]*)\s*=\s*(.*)\s*$/): <<>> when there
\* is no match, else the two groups; the greedy (.*) takes the rest of the
\* line, trailing white space included
MatchLine(line) ==
  LET a == TrimLeft(line)
      n == IF a # <<>> /\ IsIdentStart(Head(a)) THEN IdentRun(a) ELSE 0
      b == TrimLeft(SubSeq(a, n + 1, Len(a)))
  IN IF n = 0 \/ b = <<>> \/ Head(b) # "=" THEN <<>>
     ELSE <<[key |-> SubSeq(a, 1, n), val |-> TrimLeft(Tail(b))]>>

\* the value stored without looking at quotes
KeepQuotes(val) == val

\* strip surrounding quotes if present
StripQuotes(val) ==
  IF val # <<>> /\ Head(val) \in {DQ, SQ} /\ Last(val) = Head(val)
  THEN SubSeq(val, 2, Len(val) - 1)
  ELSE val

\* the forEach over the lines: env[key] = val for every line that matches
RECURSIVE MergeLines(_, _)
MergeLines(env, lines) ==
  IF lines = <<>> THEN env
  ELSE LET m == MatchLine(Head(lines)) IN
       MergeLines(IF m = <<>> THEN env ELSE (m[1].key :> StripQuotes(m[1].val)) @@ env,
                  Tail(lines))

\* what fs.readFileSync gives for a backend/.env that cannot be read
Unreadable == <<"(EACCES)">>

\* { ...process.env, PYTHONPATH: "src" } and the try block over it; file is
\* <<>> when backend/.env does not exist, <<Unreadable>> when readFileSync
\* throws, else <<its text>>.  The result is env as the block left it and
\* whether the block threw.
TryMerge(base, file) ==
  LET env == (<<"PYTHONPATH">> :> <<"src">>) @@ base
  IN IF file = <<>> THEN [env |-> env, threw |-> FALSE]
     ELSE IF file[1] = Unreadable THEN [env |-> env, threw |-> TRUE]
     ELSE [env |-> MergeLines(env, SplitLines(file[1])), threw |-> FALSE]

\* the block without a catch clause
Uncaught(r) == r

\* catch { }: the error is ignored
Caught(r) == [r EXCEPT !.threw = FALSE]

\* the environment after the try/catch
MergedEnv(base, file) == Caught(TryMerge(base, file)).env

\* env[k], <<>> when it is not set
EnvGet(env, k) == IF k \in DOMAIN env THEN env[k] ELSE <<>>

\* ------------------------------------------------ stream route: launch
\* env.PYTHON_BIN && String(env.PYTHON_BIN).trim()
Preferred(cfg) == Trim(cfg.pythonBin)

\* [preferred || "", "python3", "python"].filter(Boolean)
Candidates(cfg) ==
  (IF Preferred(cfg) # <<>> THEN <<Preferred(cfg)>> ELSE <<>>) \o <<Python3, Python>>

\* the for loop over the interpreter candidates
RECURSIVE TryInterpreters(_, _, _)
TryInterpreters(cands, outcome, tried) ==
  IF cands = <<>> THEN [child |-> <<>>, tried |-> tried, lines |-> <<>>]
  ELSE LET bin == Head(cands) IN
       IF outcome[bin] = "throws"
       THEN TryInterpreters(Tail(cands), outcome, Append(tried, bin))
       ELSE [child |-> bin, tried |-> Append(tried, bin),
             lines |-> <<<<"Using interpreter: ">> \o bin>>]

\* spawnCliOrPython: the child (<<>> when none), the binaries spawn was
\* called with, in order, and the lines written on the way
spawnCliOrPython(cfg) ==
  IF cfg.venv
  THEN IF cfg.outcome[Crewai] # "throws"
       THEN [child |-> Crewai, tried |-> <<Crewai>>, lines |-> <<<<"Using CLI: crewai run">>>>]
       ELSE LET r == TryInterpreters(Candidates(cfg), cfg.outcome, <<Crewai>>)
            IN [r EXCEPT !.lines = <<<<"Using CLI: crewai run">>>> \o @]
  ELSE TryInterpreters(Candidates(cfg), cfg.outcome, <<>>)

\* env.TOPIC before the request is looked at: what process.env and
\* backend/.env gave, Absent when neither sets it
MergedTopic(cfg) ==
  IF "env" \in DOMAIN cfg /\ <<"TOPIC">> \in DOMAIN cfg.env THEN cfg.env[<<"TOPIC">>] ELSE Absent

\* a route that sets env.TOPIC whenever the request carries the parameter
LaunchEnvIfPresent(cfg, q) ==
  ("TOPIC" :> IF q # Absent THEN TopicOf(q) ELSE MergedTopic(cfg)) @@ cfg

\* if (topic) { env.TOPIC = topic }: the launch environment of a request
\* with query q, as cfg with the value of env.TOPIC next to it
LaunchEnv(cfg, q) ==
  ("TOPIC" :> IF TopicOf(q) # <<>> THEN TopicOf(q) ELSE MergedTopic(cfg)) @@ cfg

\* the lines start() writes before it spawns
Preamble(tp, cfg) ==
  <<IF tp # <<>> THEN <<"Topic received: ">> \o tp
                 ELSE <<"No topic provided. Backend will use default.">>,
    <<"PYTHON_BIN: ">> \o (IF cfg.pythonBin # <<>> THEN cfg.pythonBin ELSE <<"not set">>),
    <<"PYTHONPATH: src">>>>
  \o (IF cfg.keys
      THEN <<<<"Detected provider keys: GROQ_API_KEY">>>>
      ELSE <<<<"No provider API key detected in environment. Proceeding anyway.">>,
             <<"Set your key(s) in backend/.env (e.g., GROQ_API_KEY=...)">>>>)

\* String(code ?? -1); the exit code is null when a signal ended the process
Null == "null"

Codes == {"0", "1", Null}

\* String(code) without the ?? -1 default
CodeTextRaw(code) == <<code>>

CodeText(code) == IF code = Null THEN <<"-1">> ELSE <<code>>

BoolText(b) == IF b THEN "true" ELSE "false"

\* the lines the 'close' callback writes
CloseLines(code, ex) ==
  <<<<"Process exited with code: ">> \o CodeText(code),
    <<"Backend CWD was: backend">>,
    <<"Check output: social_posts.json exists? ", BoolText(ex.json)>>,
    <<"Check output: analytics_summary.md exists? ", BoolText(ex.md)>>,
    <<"Check log: run.log exists? ", BoolText(ex.log)>>>>

\* the chunks the 'close' callback enqueues
CloseFrames(code, ex) == WriteLines(CloseLines(code, ex)) \o writeEvent(<<"done">>, CodeText(code))


\* --------------------------------------------------- page: parsePostsJson
\* JSON values, all of one record shape: t is the type, s the text of a
\* string, number or key, a the elements of an array or the key/value pairs
\* of an object (in key order)
J(t, s, a) == [t |-> t, s |-> s, a |-> a]

JNull == J("null", "", <<>>)
JStr(x) == J("str", x, <<>>)
JNum(x) == J("num", x, <<>>)
JArr(xs) == J("arr", "", xs)
KV(k, v) == J("kv", k, <<v>>)
JObj(kvs) == J("obj", "", kvs)
\* a string value given by its characters
JChars(cs) == J("chars", "", cs)

\* white space as /\s/ matches it
Space == " "

Tab == "\t"

IsSpace(c) == c \in {Space, Tab}

\* the value of a missing property, and the outcome of an expression that
\* throws
Undefined == J("undefined", "", <<>>)
Throw == J("throw", "", <<>>)

\* a text: the empty text, a non-empty text that is not JSON, or the JSON
\* text of a value (represented by that value)
EmptyText == J("empty", "", <<>>)
Plain(x) == J("plain", x, <<>>)
Garbage == Plain("not json")
TextOf(v) == J("text", "", <<v>>)

\* JSON.parse
JSONparse(text) == IF text.t = "text" THEN text.a[1] ELSE Throw

\* JavaScript truthiness
Truthy(v) ==
  \/ v.t \in {"arr", "obj"}
  \/ v.t = "str" /\ v.s # ""
  \/ v.t = "chars" /\ v.a # <<>>
  \/ v.t = "num" /\ v.s # "0"

IsArray(v) == v.t = "arr"

\* !text
IsEmptyText(text) == text.t = "empty"

\* xs.includes(x)
Includes(xs, x) == \E i \in 1..Len(xs) : xs[i] = x

\* typeof v === "string"
TypeofString(v) == v.t \in {"str", "chars"}

\* a || b
Or(a, b) == IF Truthy(a) THEN a ELSE b

\* typeof v === "object"
TypeofObject(v) == v.t \in {"obj", "arr", "null"}

\* the keys "0", "1", ... of an array
IndexKeys == <<"0", "1", "2", "3">>

\* Object.keys(v); the index keys of a string's characters are left out
\* (no code here tells them from no keys); throws for null and undefined
Keys(v) ==
  CASE v.t = "obj" -> [i \in 1..Len(v.a) |-> v.a[i].s]
    [] v.t = "arr" -> SubSeq(IndexKeys, 1, Len(v.a))
    [] v.t \in {"null", "undefined"} -> Throw
    [] OTHER -> <<>>

\* v[k]
Get(v, k) ==
  CASE v.t \in {"null", "undefined"} -> Throw
    [] v.t = "obj" ->
         IF \E i \in 1..Len(v.a) : v.a[i].s = k
         THEN v.a[CHOOSE i \in 1..Len(v.a) : v.a[i].s = k].a[1]
         ELSE Undefined
    [] v.t = "arr" ->
         IF \E i \in 1..Len(v.a) : IndexKeys[i] = k
         THEN v.a[CHOOSE i \in 1..Len(v.a) : IndexKeys[i] = k]
         ELSE Undefined
    [] OTHER -> Undefined

\* String.prototype.toLowerCase on the strings used as names
toLowerCase(x) ==
  CASE x = "X" -> "x"
    [] x = "Li" -> "li"
    [] x = "Platforms" -> "platforms"
    [] x = "Posts" -> "posts"
    [] OTHER -> x

\* result[k] = val on an object under construction
Assign(kvs, k, val) ==
  IF \E i \in 1..Len(kvs) : kvs[i].s = k
  THEN [i \in 1..Len(kvs) |-> IF kvs[i].s = k THEN KV(k, val) ELSE kvs[i]]
  ELSE Append(kvs, KV(k, val))

\* normalizeKeys: the forEach over Object.keys(obj)
RECURSIVE NormalizeFrom(_, _, _)
NormalizeFrom(obj, ks, acc) ==
  IF ks = <<>> THEN JObj(acc)
  ELSE LET k == Head(ks) IN
       NormalizeFrom(obj, Tail(ks),
         IF IsArray(Get(obj, k)) THEN Assign(acc, toLowerCase(k), Get(obj, k)) ELSE acc)

normalizeKeys(obj) ==
  IF obj.t \in {"null", "undefined"} THEN Throw ELSE NormalizeFrom(obj, Keys(obj), <<>>)

\* structure 1: the forEach over parsed.platforms
RECURSIVE Structure1(_, _)
Structure1(es, acc) ==
  IF es = <<>> THEN JObj(acc)
  ELSE LET e == Head(es)
           name == Get(e, "name")
           posts == Get(e, "posts")
       IN IF name.t # "str" THEN Throw
          ELSE Structure1(Tail(es),
                 Assign(acc, toLowerCase(name.s), IF Truthy(posts) THEN posts ELSE JArr(<<>>)))

\* structure 5: the forEach over the array itself
RECURSIVE Structure5(_, _)
Structure5(es, acc) ==
  IF es = <<>> THEN JObj(acc)
  ELSE LET e == Head(es)
           pf == Get(e, "platform")
           platform == IF pf # Throw /\ Truthy(pf) THEN pf ELSE JStr("general")
       IN IF pf = Throw \/ platform.t # "str" THEN Throw
          ELSE LET key == toLowerCase(platform.s)
                   had == Get(JObj(acc), key)
               IN Structure5(Tail(es),
                    Assign(acc, key, JArr((IF Truthy(had) THEN had.a ELSE <<>>) \o <<e>>)))

\* the first key of parsed that is "platforms" in lower case, <<>> if none
PlatformsKey(parsed) ==
  LET ks == Keys(parsed)
      I == {i \in 1..Len(ks) : toLowerCase(ks[i]) = "platforms"}
  IN IF I = {} THEN <<>> ELSE <<ks[CHOOSE i \in I : \A j \in I : i <= j]>>

\* the body of the try block, Throw where it throws
ParseBody(parsed) ==
  IF parsed = Throw \/ parsed.t = "null" THEN Throw
  ELSE IF Truthy(Get(parsed, "raw")) /\ Truthy(Get(parsed, "error")) THEN JNull
  ELSE IF Truthy(Get(parsed, "platforms")) /\ IsArray(Get(parsed, "platforms"))
       THEN Structure1(Get(parsed, "platforms").a, <<>>)
  ELSE IF /\ PlatformsKey(parsed) # <<>>
          /\ TypeofObject(Get(parsed, PlatformsKey(parsed)[1]))
          /\ ~IsArray(Get(parsed, PlatformsKey(parsed)[1]))
       THEN normalizeKeys(Get(parsed, PlatformsKey(parsed)[1]))
  ELSE IF \E i \in 1..Len(Keys(parsed)) : IsArray(Get(parsed, Keys(parsed)[i]))
       THEN normalizeKeys(parsed)
  ELSE IF /\ Truthy(Get(parsed, "posts"))
          /\ TypeofObject(Get(parsed, "posts"))
          /\ ~IsArray(Get(parsed, "posts"))
       THEN normalizeKeys(Get(parsed, "posts"))
  ELSE IF IsArray(parsed) THEN Structure5(parsed.a, <<>>)
  ELSE JNull

\* parsePostsJson: null (JNull) where the body returns null or throws
parsePostsJson(raw) ==
  LET r == ParseBody(JSONparse(raw)) IN IF r = Throw THEN JNull ELSE r

\* parsedPosts || undefined
OrUndefined(v) == IF Truthy(v) THEN v ELSE Undefined

\* Object.keys(posts).filter(k => Array.isArray(posts[k]) && posts[k].length > 0)
AvailablePlatforms(posts) ==
  LET Populated(k) == IsArray(Get(posts, k)) /\ Len(Get(posts, k).a) > 0
  IN SelectSeq(Keys(posts), Populated)


\* ------------------------------------------------------------------ state
VARIABLES
  \* the page (Home component)
  running, error, logs, messages, topic, serverStatus, healthPending,
  esRef, completedRef, cont, mounted, activePlatform,
  \* the browser: EventSource objects, their parsers, the task queue
  es, parser, tasks, created,
  \* the connection of each EventSource: request, bytes in flight
  conn, query, pipe,
  \* the server: configuration, and per request the route, the response
  \* stream's controller, the child process
  BACKEND_URL, upstream, fileLog, route, envOf, ctrl, proc, job, emitted, raised,
  \* history: what each request's handler did, what each EventSource saw
  sent, tried, produced, closes, heard, outcome, fetched, settled, parsed, lastTask, exited

pageVars == <<running, error, logs, messages, topic, serverStatus, healthPending,
              esRef, completedRef, cont, mounted, activePlatform>>

browserVars == <<es, parser, tasks, created>>

netVars == <<conn, query, pipe>>

serverVars == <<BACKEND_URL, upstream, fileLog, route, envOf, ctrl, proc, job, emitted, raised>>

histVars == <<sent, tried, produced, closes, heard, outcome, fetched, settled, parsed, lastTask, exited>>

vars == <<pageVars, browserVars, netVars, serverVars, histVars>>

Idle == [pc |-> "idle", newMessages |-> <<>>]

\* process.env.BACKEND_URL && String(process.env.BACKEND_URL).trim()
backendHttp == Trim(BACKEND_URL)

\* if (backendHttp)
backendUrl == backendHttp # <<>>

\* the state after the first render, on a server whose BACKEND_URL is url
InitAt(url) ==
  /\ running = FALSE
  /\ error = NoError
  /\ logs = <<>>
  /\ messages = <<>>
  /\ topic = <<>>
  /\ serverStatus = "checking"
  /\ healthPending = 1
  /\ esRef = 0
  /\ completedRef = FALSE
  /\ cont = [s \in Ids |-> Idle]
  /\ mounted = TRUE
  /\ activePlatform = "x"
  /\ es = [s \in Ids |-> "none"]
  /\ parser = [s \in Ids |-> ParserInit]
  /\ tasks = <<>>
  /\ created = 0
  /\ conn = [s \in Ids |-> "none"]
  /\ query = [s \in Ids |-> Absent]
  /\ pipe = [s \in Ids |-> <<>>]
  /\ BACKEND_URL = url
  /\ upstream = [s \in Ids |-> <<>>]
  /\ fileLog = <<>>
  /\ route = [s \in Ids |-> "none"]
  /\ envOf = [s \in Ids |-> <<>>]
  /\ ctrl = [s \in Ids |-> "none"]
  /\ proc = [s \in Ids |-> "none"]
  /\ job = [s \in Ids |-> <<>>]
  /\ emitted = [s \in Ids |-> 0]
  /\ raised = [s \in Ids |-> {}]
  /\ sent = [s \in Ids |-> <<>>]
  /\ tried = [s \in Ids |-> <<>>]
  /\ produced = [s \in Ids |-> <<>>]
  /\ closes = [s \in Ids |-> 0]
  /\ outcome = [s \in Ids |-> <<>>]
  /\ heard = [s \in Ids |-> <<>>]
  /\ settled = [s \in Ids |-> <<>>]
  /\ fetched = [s \in Ids |-> <<>>]
  /\ parsed = [s \in Ids |-> 0]
  /\ lastTask = [es |-> 0, type |-> <<>>, ran |-> FALSE, latched |-> FALSE]
  /\ exited = [s \in Ids |-> <<>>]

Init == \E url \in FlowUrls : InitAt(url)


\* ----------------------------------------------------------- input sets
Topics == {<<>>, <<" ">>, <<"t">>}

FlowTopics == {<<>>, <<"t">>}

Bins == {Crewai, <<"py">>, Python3, Python}

PythonBins == {<<>>, <<" ">>, <<"py">>, <<" ", "py">>}

\* every launch environment of one request
AllEnvs == [venv : BOOLEAN, pythonBin : PythonBins, keys : {TRUE},
            outcome : [Bins -> SpawnOutcomes]]

\* the launch environments of the flow specification: every binary runs,
\* every spawn throws, the first candidate fails to start after spawn returned
FlowEnvs ==
  {[venv |-> FALSE, pythonBin |-> <<>>, keys |-> TRUE, outcome |-> [b \in Bins |-> "runs"]],
   [venv |-> TRUE, pythonBin |-> <<"py">>, keys |-> FALSE, outcome |-> [b \in Bins |-> "throws"]],
   [venv |-> FALSE, pythonBin |-> <<>>, keys |-> TRUE,
    outcome |-> [b \in Bins |-> IF b = Python3 THEN "enoent" ELSE "runs"]]}

Alphabet == {"a", TokCompleted, CR, LF}

\* every chunk of at most MaxChunkLen tokens
AllChunks == SeqsUpTo(Alphabet, MaxChunkLen) \ {<<>>}

\* the chunks of the flow specification: a plain line, each status line
FlowChunks == {<<"a", LF>>, <<TokCompleted, LF>>, <<TokFailedMsg, LF>>}

\* payloads of the frames a remote runner sends
RemotePayloads == {<<"a">>, <<TokCompleted>>, <<TokFailed>>}

AllExists == [json : BOOLEAN, md : BOOLEAN, log : BOOLEAN]

OrderEnv == [venv |-> FALSE, pythonBin |-> <<>>, keys |-> TRUE, outcome |-> [b \in Bins |-> "runs"]]

OrderExists == [json |-> TRUE, md |-> TRUE, log |-> FALSE]

FlowExists == {OrderExists}

RawPosts == TextOf(JObj(<<KV("x", JArr(<<JObj(<<KV("hook", JStr("h"))>>)>>))>>))

RawReport == Plain("# Report")

\* process.env of the server
BaseEnvs ==
  {(<<"HOME">> :> <<"h">>),
   (<<"K">> :> <<"1", "1">>) @@ (<<"PYTHON_BIN">> :> <<"py">>) @@ (<<"PYTHONPATH">> :> <<"p">>)}

\* backend/.env: absent, unreadable, or the line K1=K followed by any line of up to
\* MaxLineLen characters
EarlierLine == <<"K", "1", "=", "K">>

EnvLines == SeqsUpTo({Space, "=", DQ, SQ, "K", "1"}, MaxLineLen)

EnvFiles == {<<>>, <<Unreadable>>} \cup {<<EarlierLine \o <<LF>> \o line>> : line \in EnvLines}

\* the launch environment that a base environment and a backend/.env give
EnvCfg(base, file) ==
  [venv |-> FALSE,
   pythonBin |-> EnvGet(MergedEnv(base, file), <<"PYTHON_BIN">>),
   keys |-> FALSE,
   outcome |-> [b \in Bins |-> "runs"],
   base |-> base,
   file |-> file,
   env |-> MergedEnv(base, file),
   threw |-> Caught(TryMerge(base, file)).threw]

EnvCfgs == {EnvCfg(base, file) : base \in BaseEnvs, file \in EnvFiles}

\* process.env.BACKEND_URL: unset, blank, an address, with a trailing slash,
\* with two, with white space around it
BackendUrls ==
  {<<>>, <<" ">>, RemoteBase, RemoteBase \o <<"/">>, RemoteBase \o <<"/", "/">>,
   <<" ">> \o RemoteBase \o <<"/", " ">>}

\* the topic parameter of a request: none, empty, blank, a topic
TopicQueries == {Absent, <<>>, <<"%20">>, <<"t">>}

\* launch environments without and with a TOPIC of the server's own
TopicEnvs == {OrderEnv, EnvCfg(<<"TOPIC">> :> <<"d">>, <<>>)}

\* the texts of social_posts.json: posts, platform names, and the five
\* layouts the job writes them in
PA == JObj(<<KV("hook", JStr("a"))>>)

PB == JObj(<<KV("hook", JStr("b"))>>)

Names == {"", "x", "X", "Li"}

PostSeqs == SeqsUpTo({PA, PB}, MaxPosts)

Groups == [name : Names, posts : PostSeqs]

GroupLists == SeqsUpTo(Groups, MaxGroups)

\* the groups of a JSON object: no key twice
KeyedLists == {gs \in GroupLists : \A i, j \in 1..Len(gs) : gs[i].name = gs[j].name => i = j}

NameRecord(g, bare) ==
  JObj(<<KV("name", JStr(g.name))>>
       \o (IF bare /\ g.posts = <<>> THEN <<>> ELSE <<KV("posts", JArr(g.posts))>>))

PlatformMap(gs) == JObj([i \in 1..Len(gs) |-> KV(gs[i].name, JArr(gs[i].posts))])

Shape1(gs, bare) ==
  JObj(<<KV("platforms", JArr([i \in 1..Len(gs) |-> NameRecord(gs[i], bare)]))>>)

Shape2(key, gs) == JObj(<<KV(key, PlatformMap(gs))>>)

Shape3(gs) == PlatformMap(gs)

Shape4(gs) == JObj(<<KV("posts", PlatformMap(gs))>>)

FlatPosts ==
  {JObj(pf \o p.a) : p \in {PA, PB},
                     pf \in {<<>>} \cup {<<KV("platform", JStr(n))>> : n \in Names \ {""}}}

Shape5(ps) == JArr(ps)

ShapeValues ==
  {Shape1(gs, bare) : gs \in GroupLists, bare \in BOOLEAN}
  \cup {Shape2(key, gs) : key \in {"platforms", "Platforms"}, gs \in KeyedLists}
  \cup {Shape3(gs) : gs \in KeyedLists \ {<<>>}}
  \cup {Shape4(gs) : gs \in KeyedLists}
  \cup {Shape5(ps) : ps \in SeqsUpTo(FlatPosts, MaxFlat)}

\* objects that carry a platforms field, direct platform keys and a posts
\* field at once, each of them well formed or not
PlatformsParts ==
  {<<>>} \cup
  {<<KV(k, v)>> : k \in {"platforms", "Platforms"},
                 v \in {JArr(<<NameRecord([name |-> "X", posts |-> <<PA>>], FALSE)>>),
                        JArr(<<JObj(<<KV("posts", JArr(<<PA>>))>>)>>),
                        JArr(<<JObj(<<KV("name", JNum("1")), KV("posts", JArr(<<PA>>))>>)>>),
                        JArr(<<>>),
                        JObj(<<KV("Li", JArr(<<PB>>))>>),
                        JNull,
                        JStr("s")}}

DirectParts == {<<>>, <<KV("x", JArr(<<PA>>))>>, <<KV("x", JStr("s"))>>}

PostsParts ==
  {<<>>} \cup
  {<<KV(k, v)>> : k \in {"posts", "Posts"},
                 v \in {JObj(<<KV("X", JArr(<<PA, PB>>))>>), JArr(<<PB>>), JNull}}

MixedValues ==
  {JObj(a \o b \o c) : a \in PlatformsParts, b \in DirectParts, c \in PostsParts}

\* values of no layout
OtherValues ==
  {JNull, JNum("0"), JNum("1"), JStr(""), JStr("s"),
   JArr(<<JNum("1"), JNum("2")>>), JArr(<<JNull>>), JArr(<<JStr("s")>>),
   JArr(<<JObj(<<KV("platform", JNum("1")), KV("hook", JStr("a"))>>)>>),
   JObj(<<KV("raw", JStr("r")), KV("error", JStr("e"))>>),
   JObj(<<KV("raw", JStr("r")), KV("error", JStr("e")), KV("x", JArr(<<PA>>))>>),
   JObj(<<KV("raw", JStr("r")), KV("x", JArr(<<PA>>))>>),
   JObj(<<KV("a", JNum("1"))>>)}

ParseTexts ==
  {EmptyText, Garbage} \cup {TextOf(v) : v \in ShapeValues \cup MixedValues \cup OtherValues}

\* posts with every combination of the fields a card reads: a field is
\* absent, the empty string, or a text that names the field
Opt(name, values) == {<<>>} \cup {<<KV(name, JStr(v))>> : v \in values}

HookParts ==
  {a \o b \o c : a \in Opt("hook", {"", "hook"}), b \in Opt("title", {"", "title"}),
                 c \in Opt("headline", {"headline"})}

BodyParts ==
  {a \o b \o c \o d : a \in Opt("body", {"", "body"}), b \in Opt("content", {"content"}),
                       c \in Opt("text", {"", "text"}), d \in Opt("description", {"description"})}

CtaParts == {a \o b : a \in Opt("cta", {"", "cta"}), b \in Opt("call_to_action", {"action"})}

FieldPosts == {JObj(h \o b \o c) : h \in HookParts, b \in BodyParts, c \in CtaParts}

\* posts with hashtags: a string of up to MaxTagLen characters or a
\* sequence of tokens, under hashtags, under tags, or both
TagStrings == {JChars(cs) : cs \in SeqsUpTo({Space, Tab, "a", "#"}, MaxTagLen)}

TagLists == {JArr(ts) : ts \in SeqsUpTo({JChars(<<"a">>), JChars(<<"#", "a">>)}, MaxTags)}

TagPosts ==
  {JObj(h \o t) : h \in {<<>>} \cup {<<KV("hashtags", v)>> : v \in TagStrings \cup TagLists},
                  t \in {<<>>, <<KV("tags", JArr(<<JChars(<<"t">>)>>))>>,
                         <<KV("tags", JChars(<<"t", Space, "u">>))>>}}

CardTexts == {TextOf(JObj(<<KV("x", JArr(<<p>>))>>)) : p \in FieldPosts \cup TagPosts}

\* the texts of the view specification
ViewTexts ==
  {EmptyText, Garbage, RawPosts,
   TextOf(JObj(<<>>)),
   TextOf(Shape3(<<[name |-> "x", posts |-> <<>>]>>)),
   TextOf(Shape3(<<[name |-> "", posts |-> <<PA>>]>>)),
   TextOf(Shape3(<<[name |-> "Li", posts |-> <<PA>>], [name |-> "x", posts |-> <<>>]>>)),
   TextOf(Shape3(<<[name |-> "Li", posts |-> <<PA>>], [name |-> "x", posts |-> <<PB>>]>>)),
   TextOf(JArr(<<PA>>))}

\* ---------------------------------------------------------- file route
\* The name of a requested file is a sequence of tokens: "a" a letter, "."
\* the dot, "/" the slash, LF the line feed, and the words md, json and txt.
\* /^[A-Za-z0-9._-]+\.(md|json|txt)$/.test(name) with only the extension
\* looked at
NameOkLoose(name) ==
  /\ Len(name) >= 3
  /\ name[Len(name) - 1] = "."
  /\ name[Len(name)] \in {"md", "json", "txt"}

\* /^[A-Za-z0-9._-]+\.(md|json|txt)$/.test(name)
NameOk(name) ==
  /\ Len(name) >= 3
  /\ \A i \in 1..Len(name) : name[i] \in {"a", ".", "md", "json", "txt"}
  /\ name[Len(name) - 1] = "."
  /\ name[Len(name)] \in {"md", "json", "txt"}

\* the segments of a path text, cut at its slashes
RECURSIVE Segments(_, _, _)
Segments(t, cur, acc) ==
  IF t = <<>> THEN Append(acc, cur)
  ELSE IF Head(t) = "/" THEN Segments(Tail(t), <<>>, Append(acc, cur))
  ELSE Segments(Tail(t), Append(cur, Head(t)), acc)

\* path.join: empty and "." segments are dropped, ".." drops the segment
\* before it
RECURSIVE Normalize(_, _)
Normalize(segs, stack) ==
  IF segs = <<>> THEN stack
  ELSE IF Head(segs) \in {<<>>, <<".">>} THEN Normalize(Tail(segs), stack)
  ELSE IF Head(segs) = <<".", ".">>
       THEN Normalize(Tail(segs), IF stack = <<>> THEN stack ELSE Front(stack))
  ELSE Normalize(Tail(segs), Append(stack, Head(segs)))

RECURSIVE JoinSegments(_)
JoinSegments(segs) ==
  IF segs = <<>> THEN <<>> ELSE <<"/">> \o Head(segs) \o JoinSegments(Tail(segs))

\* path.join(process.cwd(), "..", "backend", name) for the working
\* directory /app/frontend
FilePath(name) ==
  JoinSegments(Normalize(<<<<"app">>, <<"frontend">>, <<".", ".">>, <<"backend">>>>
                         \o Segments(name, <<>>, <<>>), <<>>))

NoType == "none"
Markdown == "text/markdown; charset=utf-8"
Json == "application/json; charset=utf-8"
PlainText == "text/plain; charset=utf-8"
JsonBody == "application/json"

\* the content type of the local branch
ContentTypeOf(name) ==
  CASE Last(name) = "md" /\ name[Len(name) - 1] = "." -> Markdown
    [] Last(name) = "json" /\ name[Len(name) - 1] = "." -> Json
    [] Last(name) = "txt" /\ name[Len(name) - 1] = "." -> PlainText
    [] OTHER -> "application/octet-stream"

Effect(op, arg) == [op |-> op, arg |-> arg]

\* NextResponse.json(body, { status })
JsonResponse(effects, status) ==
  [effects |-> effects, status |-> status, ctype |-> JsonBody, origin |-> NoType]

\* GET of the file route for name; origin says what the remote runner or
\* the disk answers.  The result holds what the handler did (effects, in
\* order), the status and the content type of its response, and the content
\* type the origin supplied.
FileResponse(name, origin) ==
  IF ~NameOk(name) THEN JsonResponse(<<>>, "400")
  ELSE IF backendUrl
  THEN LET target == Base(backendHttp) \o <<"/file/">> \o encodeURIComponent(name)
       IN IF origin.rejects THEN JsonResponse(<<Effect("fetch", target)>>, "500")
          ELSE [effects |-> <<Effect("fetch", target)>>, status |-> origin.status,
                ctype |-> origin.ctype, origin |-> origin.ctype]
  ELSE LET filePath == FilePath(name)
       IN IF ~origin.exists THEN JsonResponse(<<Effect("existsSync", filePath)>>, "404")
          ELSE IF ~origin.readable
          THEN JsonResponse(<<Effect("existsSync", filePath), Effect("readFileSync", filePath)>>, "500")
          ELSE [effects |-> <<Effect("existsSync", filePath), Effect("readFileSync", filePath)>>,
                status |-> "200", ctype |-> ContentTypeOf(name), origin |-> NoType]

FileGet(name, origin) ==
  /\ Len(fileLog) < MaxFileGets
  /\ fileLog' = Append(fileLog, [name |-> name] @@ FileResponse(name, origin))
  /\ UNCHANGED <<pageVars, browserVars, netVars, histVars>>
  /\ UNCHANGED <<BACKEND_URL, upstream, route, envOf, ctrl, proc, job, emitted, raised>>

\* ---------------------------------------------------------------- page
\* a client other than the page requests the stream route with query q
\* and reads the response
Request(q) ==
  /\ created < MaxRuns
  /\ LET s == created + 1 IN
     /\ created' = s
     /\ conn' = [conn EXCEPT ![s] = "up"]
     /\ query' = [query EXCEPT ![s] = q]
     /\ route' = [route EXCEPT ![s] = "pending"]
  /\ UNCHANGED <<pageVars, es, parser, tasks, pipe>>
  /\ UNCHANGED <<BACKEND_URL, upstream, fileLog, envOf, ctrl, proc, job, emitted, raised, histVars>>

\* es.close(): the object is closed and its request aborted
Closed(s) == [es EXCEPT ![s] = "closed"]

Aborted(s) == [conn EXCEPT ![s] = "down"]

\* runFlow without the reset of the completion latch
runFlowKeepsLatch(cap) ==
  IF serverStatus = "offline"
  THEN /\ error' = OfflineErr
       /\ UNCHANGED <<running, logs, messages, topic, serverStatus, healthPending,
                      esRef, completedRef, cont, mounted>>
       /\ UNCHANGED <<browserVars, netVars, serverVars, histVars, activePlatform>>
  ELSE /\ created < cap
       /\ LET s == created + 1 IN
          /\ running' = TRUE
          /\ error' = NoError
          /\ logs' = <<>>
          /\ messages' = <<>>
          /\ completedRef' = completedRef
          /\ es' = [(IF esRef # 0 THEN Closed(esRef) ELSE es) EXCEPT ![s] = "open"]
          /\ conn' = [(IF esRef # 0 THEN Aborted(esRef) ELSE conn) EXCEPT ![s] = "up"]
          /\ esRef' = s
          /\ created' = s
          /\ query' = [query EXCEPT ![s] = QueryOf(topic)]
          /\ route' = [route EXCEPT ![s] = "pending"]
          /\ UNCHANGED <<topic, serverStatus, healthPending, cont, mounted, parser, tasks, pipe>>
          /\ UNCHANGED <<BACKEND_URL, upstream, fileLog, envOf, ctrl, proc, job, emitted, raised, histVars, activePlatform>>

\* runFlow; cap bounds the EventSources of the behaviour
runFlow(cap) ==
  IF serverStatus = "offline"
  THEN /\ error' = OfflineErr
       /\ UNCHANGED <<running, logs, messages, topic, serverStatus, healthPending,
                      esRef, completedRef, cont, mounted>>
       /\ UNCHANGED <<browserVars, netVars, serverVars, histVars, activePlatform>>
  ELSE /\ created < cap
       /\ LET s == created + 1 IN
          /\ running' = TRUE
          /\ error' = NoError
          /\ logs' = <<>>
          /\ messages' = <<>>
          /\ completedRef' = FALSE
          /\ es' = [(IF esRef # 0 THEN Closed(esRef) ELSE es) EXCEPT ![s] = "open"]
          /\ conn' = [(IF esRef # 0 THEN Aborted(esRef) ELSE conn) EXCEPT ![s] = "up"]
          /\ esRef' = s
          /\ created' = s
          /\ query' = [query EXCEPT ![s] = QueryOf(topic)]
          /\ route' = [route EXCEPT ![s] = "pending"]
          /\ UNCHANGED <<topic, serverStatus, healthPending, cont, mounted, parser, tasks, pipe>>
          /\ UNCHANGED <<BACKEND_URL, upstream, fileLog, envOf, ctrl, proc, job, emitted, raised, histVars, activePlatform>>

\* the Generate button: disabled={running || serverStatus === "checking"}
ClickGenerate(cap) ==
  /\ mounted
  /\ ~(running \/ serverStatus = "checking")
  /\ runFlow(cap)

\* an onKeyDown that starts a run whether or not one is running
PressEnterUngated(cap) ==
  /\ mounted
  /\ runFlow(cap)

\* the input's onKeyDown: e.key === "Enter" && !running && runFlow()
PressEnter(cap) ==
  /\ mounted
  /\ ~running
  /\ runFlow(cap)

\* the input's onChange
SetTopic(t) ==
  /\ mounted
  /\ t # topic
  /\ topic' = t
  /\ UNCHANGED <<running, error, logs, messages, serverStatus, healthPending,
                 esRef, completedRef, cont, mounted>>
  /\ UNCHANGED <<browserVars, netVars, serverVars, histVars, activePlatform>>

\* checkServerStatus, from the 30 s interval
CheckServerStatus ==
  /\ mounted
  /\ healthPending < MaxChecks
  /\ serverStatus' = "checking"
  /\ healthPending' = healthPending + 1
  /\ UNCHANGED <<running, error, logs, messages, topic, esRef, completedRef, cont, mounted>>
  /\ UNCHANGED <<browserVars, netVars, serverVars, histVars, activePlatform>>

\* the health request settles: res.ok, or not ok / rejected / aborted
HealthResult(ok) ==
  /\ healthPending > 0
  /\ serverStatus' = IF ok THEN "online" ELSE "offline"
  /\ healthPending' = healthPending - 1
  /\ UNCHANGED <<running, error, logs, messages, topic, esRef, completedRef, cont, mounted>>
  /\ UNCHANGED <<browserVars, netVars, serverVars, histVars, activePlatform>>

\* a cleanup that closes the EventSource and keeps the reference
UnmountKeepsRef ==
  /\ mounted
  /\ mounted' = FALSE
  /\ es' = IF esRef # 0 THEN Closed(esRef) ELSE es
  /\ conn' = IF esRef # 0 THEN Aborted(esRef) ELSE conn
  /\ esRef' = esRef
  /\ UNCHANGED <<running, error, logs, messages, topic, serverStatus, healthPending,
                 completedRef, cont>>
  /\ UNCHANGED <<parser, tasks, created, query, pipe, serverVars, histVars, activePlatform>>

\* the cleanup of the mount effect
Unmount ==
  /\ mounted
  /\ mounted' = FALSE
  /\ es' = IF esRef # 0 THEN Closed(esRef) ELSE es
  /\ conn' = IF esRef # 0 THEN Aborted(esRef) ELSE conn
  /\ esRef' = 0
  /\ UNCHANGED <<running, error, logs, messages, topic, serverStatus, healthPending,
                 completedRef, cont>>
  /\ UNCHANGED <<parser, tasks, created, query, pipe, serverVars, histVars, activePlatform>>

\* messages.find(m => m.agent === "Content Creator"), <<>> if none
contentCreatorMsg ==
  LET I == {i \in 1..Len(messages) : messages[i].agent = "Content Creator"}
  IN IF I = {} THEN <<>> ELSE <<messages[CHOOSE i \in I : \A j \in I : i <= j]>>

\* contentCreatorMsg?.parsedPosts
posts == IF contentCreatorMsg = <<>> THEN Undefined ELSE contentCreatorMsg[1].parsedPosts

platforms == IF Truthy(posts) THEN AvailablePlatforms(posts) ELSE <<>>

effectivePlatform ==
  IF Includes(platforms, activePlatform) THEN activePlatform
  ELSE IF platforms # <<>> /\ platforms[1] # "" THEN platforms[1]
  ELSE "x"

\* the content panel showing the tabs for any document
ContentPanelAnyDocument ==
  IF contentCreatorMsg = <<>> THEN "placeholder"
  ELSE IF Truthy(posts) THEN "tabs"
  ELSE IF ~IsEmptyText(contentCreatorMsg[1].content) THEN "raw"
  ELSE "no content"

\* cs.split(/\s+/): the pieces between the maximal runs of white space,
\* an empty piece before a leading run and after a trailing run
RECURSIVE SplitSpaces(_, _, _)
SplitSpaces(cs, piece, inRun) ==
  IF cs = <<>> THEN <<piece>>
  ELSE IF IsSpace(Head(cs))
       THEN IF inRun THEN SplitSpaces(Tail(cs), piece, TRUE)
            ELSE <<piece>> \o SplitSpaces(Tail(cs), <<>>, TRUE)
  ELSE SplitSpaces(Tail(cs), Append(piece, Head(cs)), FALSE)

\* rawTags.split(/\s+/) without the filter
SplitOnly(cs) ==
  LET pieces == SplitSpaces(cs, <<>>, FALSE)
  IN [i \in 1..Len(pieces) |-> JChars(pieces[i])]

\* rawTags.split(/\s+/).filter(Boolean)
SplitFilter(cs) == SelectSeq(SplitOnly(cs), Truthy)

\* PostCard with title read before hook
PostCardTitleFirst(post) ==
  LET field(name) == Get(post, name)
      rawTags == Or(field("hashtags"), field("tags"))
  IN [hook |-> Or(Or(Or(field("title"), field("hook")), field("headline")), JStr("")),
      body |-> Or(Or(Or(Or(field("body"), field("content")), field("text")),
                     field("description")), JStr("")),
      cta |-> Or(Or(field("cta"), field("call_to_action")), JStr("")),
      hashtags |-> IF IsArray(rawTags) THEN rawTags.a
                   ELSE IF TypeofString(rawTags) THEN SplitFilter(rawTags.a)
                   ELSE <<>>]

\* PostCard that keeps the empty pieces of the split
PostCardNoFilter(post) ==
  LET field(name) == Get(post, name)
      rawTags == Or(field("hashtags"), field("tags"))
  IN [hook |-> Or(Or(Or(field("hook"), field("title")), field("headline")), JStr("")),
      body |-> Or(Or(Or(Or(field("body"), field("content")), field("text")),
                     field("description")), JStr("")),
      cta |-> Or(Or(field("cta"), field("call_to_action")), JStr("")),
      hashtags |-> IF IsArray(rawTags) THEN rawTags.a
                   ELSE IF TypeofString(rawTags) THEN SplitOnly(rawTags.a)
                   ELSE <<>>]

\* PostCard: what the card shows of a post
PostCard(post) ==
  LET field(name) == Get(post, name)
      rawTags == Or(field("hashtags"), field("tags"))
  IN [hook |-> Or(Or(Or(field("hook"), field("title")), field("headline")), JStr("")),
      body |-> Or(Or(Or(Or(field("body"), field("content")), field("text")),
                     field("description")), JStr("")),
      cta |-> Or(Or(field("cta"), field("call_to_action")), JStr("")),
      hashtags |-> IF IsArray(rawTags) THEN rawTags.a
                   ELSE IF TypeofString(rawTags) THEN SplitFilter(rawTags.a)
                   ELSE <<>>]

\* what the content panel renders
ContentPanel ==
  IF contentCreatorMsg = <<>> THEN "placeholder"
  ELSE IF Truthy(posts) /\ Len(platforms) > 0 THEN "tabs"
  ELSE IF ~IsEmptyText(contentCreatorMsg[1].content) THEN "raw"
  ELSE "no content"

\* (posts[effectivePlatform] || []).map(post => <PostCard post={post} />)
Cards ==
  IF ContentPanel # "tabs" THEN <<>>
  ELSE LET shown == Or(Get(posts, effectivePlatform), JArr(<<>>)).a
       IN [i \in 1..Len(shown) |-> [post |-> shown[i], card |-> PostCard(shown[i])]]

\* a click on the tab of platform p
SetActivePlatform(p) ==
  /\ mounted
  /\ ContentPanel = "tabs"
  /\ Includes(platforms, p)
  /\ activePlatform' = p
  /\ UNCHANGED <<running, error, logs, messages, topic, serverStatus, healthPending,
                 esRef, completedRef, cont, mounted>>
  /\ UNCHANGED <<browserVars, netVars, serverVars, histVars>>

\* es.onmessage whose completed branch omits es.close()
onmessageNoClose(s, data) ==
  /\ logs' = appendLog(logs, data)
  /\ IF StatusOf(data) = "completed"
     THEN /\ completedRef' = TRUE
          /\ UNCHANGED <<es, conn>>
          /\ esRef' = 0
          /\ cont' = [cont EXCEPT ![s] = [pc |-> "content", newMessages |-> <<>>]]
          /\ outcome' = [outcome EXCEPT ![s] = Append(@, "completed")]
          /\ fetched' = [fetched EXCEPT ![s] = Append(@, "social_posts.json")]
          /\ UNCHANGED <<running, error>>
     ELSE IF StatusOf(data) = "failed"
     THEN /\ completedRef' = TRUE
          /\ error' = MessageOf(data)
          /\ running' = FALSE
          /\ es' = Closed(s)
          /\ conn' = Aborted(s)
          /\ esRef' = 0
          /\ outcome' = [outcome EXCEPT ![s] = Append(@, "failed")]
          /\ UNCHANGED <<cont, fetched>>
     ELSE UNCHANGED <<completedRef, error, running, es, conn, esRef, cont, outcome, fetched>>
  /\ UNCHANGED <<serverStatus, healthPending>>

\* es.onmessage up to its first await
onmessage(s, data) ==
  /\ logs' = appendLog(logs, data)
  /\ IF StatusOf(data) = "completed"
     THEN /\ completedRef' = TRUE
          /\ es' = Closed(s)
          /\ conn' = Aborted(s)
          /\ esRef' = 0
          /\ cont' = [cont EXCEPT ![s] = [pc |-> "content", newMessages |-> <<>>]]
          /\ outcome' = [outcome EXCEPT ![s] = Append(@, "completed")]
          /\ fetched' = [fetched EXCEPT ![s] = Append(@, "social_posts.json")]
          /\ UNCHANGED <<running, error>>
     ELSE IF StatusOf(data) = "failed"
     THEN /\ completedRef' = TRUE
          /\ error' = MessageOf(data)
          /\ running' = FALSE
          /\ es' = Closed(s)
          /\ conn' = Aborted(s)
          /\ esRef' = 0
          /\ outcome' = [outcome EXCEPT ![s] = Append(@, "failed")]
          /\ UNCHANGED <<cont, fetched>>
     ELSE UNCHANGED <<completedRef, error, running, es, conn, esRef, cont, outcome, fetched>>
  /\ UNCHANGED <<serverStatus, healthPending>>

\* es.onerror with the test of the latch inverted (a variant of the handler
\* that the properties of the latch must tell apart from the code's)
onerrorInverted(s) ==
  /\ IF completedRef
     THEN /\ error' = ConnErr
          /\ serverStatus' = "checking"
          /\ healthPending' = IF healthPending < MaxChecks THEN healthPending + 1 ELSE healthPending
     ELSE UNCHANGED <<error, serverStatus, healthPending>>
  /\ es' = Closed(s)
  /\ conn' = Aborted(s)
  /\ esRef' = 0
  /\ running' = FALSE
  /\ outcome' = [outcome EXCEPT ![s] = Append(@, "error")]
  /\ UNCHANGED <<logs, completedRef, cont, fetched>>

\* es.onerror without es.close()
onerrorNoClose(s) ==
  /\ IF ~completedRef
     THEN /\ error' = ConnErr
          /\ serverStatus' = "checking"
          /\ healthPending' = IF healthPending < MaxChecks THEN healthPending + 1 ELSE healthPending
     ELSE UNCHANGED <<error, serverStatus, healthPending>>
  /\ UNCHANGED <<es, conn>>
  /\ esRef' = 0
  /\ running' = FALSE
  /\ outcome' = [outcome EXCEPT ![s] = Append(@, "error")]
  /\ UNCHANGED <<logs, completedRef, cont, fetched>>

\* es.onerror
onerror(s) ==
  /\ IF ~completedRef
     THEN /\ error' = ConnErr
          /\ serverStatus' = "checking"
          /\ healthPending' = IF healthPending < MaxChecks THEN healthPending + 1 ELSE healthPending
     ELSE UNCHANGED <<error, serverStatus, healthPending>>
  /\ es' = Closed(s)
  /\ conn' = Aborted(s)
  /\ esRef' = 0
  /\ running' = FALSE
  /\ outcome' = [outcome EXCEPT ![s] = Append(@, "error")]
  /\ UNCHANGED <<logs, completedRef, cont, fetched>>

\* a browser that fires queued events at a closed EventSource as well
DispatchClosedToo ==
  /\ tasks # <<>>
  /\ LET t == Head(tasks) IN
     /\ tasks' = Tail(tasks)
     /\ lastTask' = [es |-> t.es, type |-> t.type, ran |-> es[t.es] = "open",
                     latched |-> completedRef]
     /\ IF t.type = <<"message">> THEN onmessage(t.es, t.data)
        ELSE IF t.type = <<"error">> THEN onerror(t.es)
        ELSE UNCHANGED <<running, error, logs, serverStatus, healthPending, esRef,
                         completedRef, cont, es, conn, outcome, fetched>>
  /\ UNCHANGED <<messages, topic, mounted, parser, created, query, pipe>>
  /\ UNCHANGED <<serverVars, sent, tried, produced, closes, heard, settled, parsed, exited, activePlatform>>

\* The browser runs the next task: an event is fired at its EventSource
\* unless that object was closed meanwhile; "message" reaches onmessage,
\* "error" reaches onerror, any other type has no listener.
Dispatch ==
  /\ tasks # <<>>
  /\ LET t == Head(tasks) IN
     /\ tasks' = Tail(tasks)
     /\ lastTask' = [es |-> t.es, type |-> t.type, ran |-> es[t.es] = "open",
                     latched |-> completedRef]
     /\ IF es[t.es] = "open" /\ t.type = <<"message">> THEN onmessage(t.es, t.data)
        ELSE IF es[t.es] = "open" /\ t.type = <<"error">> THEN onerror(t.es)
        ELSE UNCHANGED <<running, error, logs, serverStatus, healthPending, esRef,
                         completedRef, cont, es, conn, outcome, fetched>>
  /\ UNCHANGED <<messages, topic, mounted, parser, created, query, pipe>>
  /\ UNCHANGED <<serverVars, sent, tried, produced, closes, heard, settled, parsed, exited, activePlatform>>

\* the content fetch as one half of an all-or-nothing pair: a failure ends
\* the run without the fetch of the report
FetchContentAbort(s, res) ==
  IF res.kind = "ok"
  THEN /\ cont[s].pc = "content"
       /\ cont' = [cont EXCEPT ![s] =
            [pc |-> "report",
             newMessages |-> <<[agent |-> "Content Creator", content |-> res.body,
                                parsedPosts |-> OrUndefined(parsePostsJson(res.body))]>>]]
       /\ activePlatform' =
            LET parsedPosts == parsePostsJson(res.body) IN
            IF Truthy(parsedPosts)
               /\ Len(AvailablePlatforms(parsedPosts)) > 0
               /\ ~Includes(AvailablePlatforms(parsedPosts), activePlatform)
            THEN AvailablePlatforms(parsedPosts)[1]
            ELSE activePlatform
       /\ parsed' = [parsed EXCEPT ![s] = @ + 1]
       /\ fetched' = [fetched EXCEPT ![s] = Append(@, "analytics_summary.md")]
       /\ settled' = [settled EXCEPT ![s] = Append(@, res.kind)]
       /\ UNCHANGED <<running, error, logs, messages, topic, serverStatus, healthPending,
                      esRef, completedRef, mounted>>
       /\ UNCHANGED <<browserVars, netVars, serverVars>>
       /\ UNCHANGED <<sent, tried, produced, closes, heard, outcome, lastTask, exited>>
  ELSE /\ cont[s].pc = "content"
       /\ logs' = appendLog(logs, <<"social_posts.json fetch failed: ", "err">>)
       /\ messages' = <<[agent |-> "Content Creator", content |-> EmptyText,
                         parsedPosts |-> Undefined]>>
       /\ running' = FALSE
       /\ cont' = [cont EXCEPT ![s] = Idle]
       /\ settled' = [settled EXCEPT ![s] = Append(@, res.kind)]
       /\ UNCHANGED <<error, topic, serverStatus, healthPending, esRef, completedRef, mounted>>
       /\ UNCHANGED <<browserVars, netVars, serverVars>>
       /\ UNCHANGED <<sent, tried, produced, closes, heard, outcome, fetched, parsed, lastTask, exited, activePlatform>>

\* the content fetch without the selection of the first available platform
FetchContentKeepPlatform(s, res) ==
  /\ cont[s].pc = "content"
  /\ logs' = IF res.kind = "throw"
             THEN appendLog(logs, <<"social_posts.json fetch failed: ", "err">>)
             ELSE logs
  /\ cont' = [cont EXCEPT ![s] =
       [pc |-> "report",
        newMessages |-> Append(@.newMessages,
           [agent |-> "Content Creator",
            content |-> IF res.kind = "ok" THEN res.body ELSE EmptyText,
            parsedPosts |-> IF res.kind = "ok"
                            THEN OrUndefined(parsePostsJson(res.body))
                            ELSE Undefined])]]
  /\ activePlatform' = activePlatform
  /\ parsed' = [parsed EXCEPT ![s] = IF res.kind = "ok" THEN @ + 1 ELSE @]
  /\ fetched' = [fetched EXCEPT ![s] = Append(@, "analytics_summary.md")]
  /\ settled' = [settled EXCEPT ![s] = Append(@, res.kind)]
  /\ UNCHANGED <<running, error, messages, topic, serverStatus, healthPending,
                 esRef, completedRef, mounted>>
  /\ UNCHANGED <<browserVars, netVars, serverVars>>
  /\ UNCHANGED <<sent, tried, produced, closes, heard, outcome, lastTask, exited>>

\* the fetch of social_posts.json settles; the message is built and the
\* fetch of analytics_summary.md is issued
FetchContent(s, res) ==
  /\ cont[s].pc = "content"
  /\ logs' = IF res.kind = "throw"
             THEN appendLog(logs, <<"social_posts.json fetch failed: ", "err">>)
             ELSE logs
  /\ cont' = [cont EXCEPT ![s] =
       [pc |-> "report",
        newMessages |-> Append(@.newMessages,
           [agent |-> "Content Creator",
            content |-> IF res.kind = "ok" THEN res.body ELSE EmptyText,
            parsedPosts |-> IF res.kind = "ok"
                            THEN OrUndefined(parsePostsJson(res.body))
                            ELSE Undefined])]]
  /\ activePlatform' =
       LET parsedPosts == IF res.kind = "ok" THEN parsePostsJson(res.body) ELSE JNull IN
       IF Truthy(parsedPosts)
          /\ Len(AvailablePlatforms(parsedPosts)) > 0
          /\ ~Includes(AvailablePlatforms(parsedPosts), activePlatform)
       THEN AvailablePlatforms(parsedPosts)[1]
       ELSE activePlatform
  /\ parsed' = [parsed EXCEPT ![s] = IF res.kind = "ok" THEN @ + 1 ELSE @]
  /\ fetched' = [fetched EXCEPT ![s] = Append(@, "analytics_summary.md")]
  /\ settled' = [settled EXCEPT ![s] = Append(@, res.kind)]
  /\ UNCHANGED <<running, error, messages, topic, serverStatus, healthPending,
                 esRef, completedRef, mounted>>
  /\ UNCHANGED <<browserVars, netVars, serverVars>>
  /\ UNCHANGED <<sent, tried, produced, closes, heard, outcome, lastTask, exited>>

\* the report fetch with a failure raised to the user
FetchReportRaises(s, res) ==
  /\ cont[s].pc = "report"
  /\ logs' = IF res.kind = "throw"
             THEN appendLog(logs, <<"analytics_summary.md fetch failed: ", "err">>)
             ELSE logs
  /\ messages' = Append(cont[s].newMessages,
        [agent |-> "Social Analyst",
         content |-> IF res.kind = "ok" THEN res.body ELSE EmptyText,
         parsedPosts |-> Undefined])
  /\ error' = IF res.kind = "ok" THEN error ELSE "analytics_summary.md fetch failed"
  /\ running' = FALSE
  /\ cont' = [cont EXCEPT ![s] = Idle]
  /\ settled' = [settled EXCEPT ![s] = Append(@, res.kind)]
  /\ UNCHANGED <<topic, serverStatus, healthPending, esRef, completedRef, mounted>>
  /\ UNCHANGED <<browserVars, netVars, serverVars>>
  /\ UNCHANGED <<sent, tried, produced, closes, heard, outcome, fetched, parsed, lastTask, exited, activePlatform>>

\* the fetch of analytics_summary.md settles; setMessages, setRunning(false)
FetchReport(s, res) ==
  /\ cont[s].pc = "report"
  /\ logs' = IF res.kind = "throw"
             THEN appendLog(logs, <<"analytics_summary.md fetch failed: ", "err">>)
             ELSE logs
  /\ messages' = Append(cont[s].newMessages,
        [agent |-> "Social Analyst",
         content |-> IF res.kind = "ok" THEN res.body ELSE EmptyText,
         parsedPosts |-> Undefined])
  /\ running' = FALSE
  /\ cont' = [cont EXCEPT ![s] = Idle]
  /\ settled' = [settled EXCEPT ![s] = Append(@, res.kind)]
  /\ UNCHANGED <<error, topic, serverStatus, healthPending, esRef, completedRef, mounted>>
  /\ UNCHANGED <<browserVars, netVars, serverVars>>
  /\ UNCHANGED <<sent, tried, produced, closes, heard, outcome, fetched, parsed, lastTask, exited, activePlatform>>


\* -------------------------------------------------------- stream route
\* GET with BACKEND_URL set: `await fetch(target)` rejects (the handler
\* raises and the framework answers 500), or the remote answers and its
\* status and body become the response.
RouteGetRemote(s, answer) ==
  /\ route[s] = "pending"
  /\ backendUrl
  /\ upstream' = [upstream EXCEPT ![s] =
       Append(@, [target |-> Target(backendHttp, TopicOf(query[s])),
                  remote |-> CASE answer = "rejects" -> "none"
                               [] answer = "status" -> "503"
                               [] OTHER -> "200",
                  status |-> CASE answer = "rejects" -> "500"
                               [] answer = "status" -> "503"
                               [] OTHER -> "200"])]
  /\ route' = [route EXCEPT ![s] = CASE answer = "rejects" -> "threw"
                                     [] answer = "status" -> "refused"
                                     [] OTHER -> "proxy"]
  /\ ctrl' = [ctrl EXCEPT ![s] = IF answer = "ok" THEN "readable" ELSE @]
  /\ raised' = [raised EXCEPT ![s] = IF answer = "rejects" THEN {"fetch rejected"} ELSE {}]
  /\ UNCHANGED <<pageVars, browserVars, netVars, BACKEND_URL, fileLog, envOf, proc, job, emitted, histVars, activePlatform>>

\* GET without BACKEND_URL: the response stream's start(controller)
RouteGetLocal(s, cfg) ==
  /\ route[s] = "pending"
  /\ ~backendUrl
  /\ LET r == spawnCliOrPython(cfg)
         pre == WriteLines(Preamble(TopicOf(query[s]), cfg) \o r.lines)
         chunks == IF r.child = <<>> THEN pre \o writeEvent(<<"error">>, <<SpawnErr>>) ELSE pre
     IN /\ route' = [route EXCEPT ![s] = "local"]
        /\ envOf' = [envOf EXCEPT ![s] = LaunchEnv(cfg, query[s])]
        /\ pipe' = [pipe EXCEPT ![s] = chunks]
        /\ sent' = [sent EXCEPT ![s] = chunks]
        /\ tried' = [tried EXCEPT ![s] = r.tried]
        /\ job' = [job EXCEPT ![s] = r.child]
        /\ ctrl' = [ctrl EXCEPT ![s] = IF r.child = <<>> THEN "closed" ELSE "readable"]
        /\ closes' = [closes EXCEPT ![s] = IF r.child = <<>> THEN @ + 1 ELSE @]
        /\ proc' = [proc EXCEPT ![s] = IF r.child = <<>> THEN "none"
                                       ELSE IF cfg.outcome[r.child] = "runs" THEN "running"
                                       ELSE "enoent"]
        \* no 'error' listener is attached: the child's 'error' event is raised
        /\ raised' = [raised EXCEPT ![s] =
             IF r.child # <<>> /\ cfg.outcome[r.child] = "enoent" THEN {"child error event"} ELSE {}]
  /\ UNCHANGED <<pageVars, browserVars, conn, query, BACKEND_URL, upstream, fileLog, emitted>>
  /\ UNCHANGED <<produced, heard, outcome, fetched, settled, parsed, lastTask, exited, activePlatform>>

\* a 'data' callback that may still run after the child's 'close' callback
ProcDataLate(s, d) ==
  /\ proc[s] \in {"running", "closed"}
  /\ emitted[s] < MaxChunks
  /\ emitted' = [emitted EXCEPT ![s] = @ + 1]
  /\ produced' = [produced EXCEPT ![s] = Append(@, d)]
  /\ LET frames == DataFrames(d) IN
     IF frames = <<>> THEN UNCHANGED <<pipe, sent, raised>>
     ELSE IF ctrl[s] = "readable"
          THEN /\ pipe' = [pipe EXCEPT ![s] = @ \o frames]
               /\ sent' = [sent EXCEPT ![s] = @ \o frames]
               /\ UNCHANGED raised
          ELSE /\ raised' = [raised EXCEPT ![s] = @ \cup {"enqueue"}]
               /\ UNCHANGED <<pipe, sent>>
  /\ UNCHANGED <<pageVars, browserVars, conn, query, BACKEND_URL, upstream, fileLog, route, envOf, ctrl, proc, job>>
  /\ UNCHANGED <<tried, closes, heard, outcome, fetched, settled, parsed, lastTask, exited, activePlatform>>

\* the stdout / stderr 'data' callback.  controller.enqueue on a stream that
\* is no longer readable throws, and the callback ends at its first enqueue
ProcData(s, d) ==
  /\ proc[s] = "running"
  /\ emitted[s] < MaxChunks
  /\ emitted' = [emitted EXCEPT ![s] = @ + 1]
  /\ produced' = [produced EXCEPT ![s] = Append(@, d)]
  /\ LET frames == DataFrames(d) IN
     IF frames = <<>> THEN UNCHANGED <<pipe, sent, raised>>
     ELSE IF ctrl[s] = "readable"
          THEN /\ pipe' = [pipe EXCEPT ![s] = @ \o frames]
               /\ sent' = [sent EXCEPT ![s] = @ \o frames]
               /\ UNCHANGED raised
          ELSE /\ raised' = [raised EXCEPT ![s] = @ \cup {"enqueue"}]
               /\ UNCHANGED <<pipe, sent>>
  /\ UNCHANGED <<pageVars, browserVars, conn, query, BACKEND_URL, upstream, fileLog, route, envOf, ctrl, proc, job>>
  /\ UNCHANGED <<tried, closes, heard, outcome, fetched, settled, parsed, lastTask, exited, activePlatform>>

\* the child's 'close' callback without controller.close()
ProcCloseNoClose(s, code, ex) ==
  /\ proc[s] \in {"running", "enoent"}
  /\ proc' = [proc EXCEPT ![s] = "closed"]
  /\ exited' = [exited EXCEPT ![s] = <<[code |-> code, ex |-> ex]>>]
  /\ IF ctrl[s] = "readable"
     THEN /\ pipe' = [pipe EXCEPT ![s] = @ \o CloseFrames(code, ex)]
          /\ sent' = [sent EXCEPT ![s] = @ \o CloseFrames(code, ex)]
          /\ UNCHANGED <<ctrl, closes>>
          /\ UNCHANGED raised
     ELSE /\ raised' = [raised EXCEPT ![s] = @ \cup {"enqueue"}]
          /\ UNCHANGED <<pipe, sent, ctrl, closes>>
  /\ UNCHANGED <<pageVars, browserVars, conn, query, BACKEND_URL, upstream, fileLog, route, envOf, job, emitted>>
  /\ UNCHANGED <<tried, produced, heard, outcome, fetched, settled, parsed, lastTask>>

\* the child's 'close' callback
ProcClose(s, code, ex) ==
  /\ proc[s] \in {"running", "enoent"}
  /\ proc' = [proc EXCEPT ![s] = "closed"]
  /\ exited' = [exited EXCEPT ![s] = <<[code |-> code, ex |-> ex]>>]
  /\ IF ctrl[s] = "readable"
     THEN /\ pipe' = [pipe EXCEPT ![s] = @ \o CloseFrames(code, ex)]
          /\ sent' = [sent EXCEPT ![s] = @ \o CloseFrames(code, ex)]
          /\ ctrl' = [ctrl EXCEPT ![s] = "closed"]
          /\ closes' = [closes EXCEPT ![s] = @ + 1]
          /\ UNCHANGED raised
     ELSE /\ raised' = [raised EXCEPT ![s] = @ \cup {"enqueue"}]
          /\ UNCHANGED <<pipe, sent, ctrl, closes>>
  /\ UNCHANGED <<pageVars, browserVars, conn, query, BACKEND_URL, upstream, fileLog, route, envOf, job, emitted>>
  /\ UNCHANGED <<tried, produced, heard, outcome, fetched, settled, parsed, lastTask>>

\* cancel(): the client is gone while the stream still holds or awaits
\* chunks; the stream drops what it held, the callback itself does nothing
Cancel(s) ==
  /\ conn[s] = "down"
  /\ ctrl[s] = "readable" \/ (ctrl[s] = "closed" /\ pipe[s] # <<>>)
  /\ ctrl' = [ctrl EXCEPT ![s] = "cancelled"]
  /\ pipe' = [pipe EXCEPT ![s] = <<>>]
  /\ UNCHANGED <<pageVars, browserVars, conn, query, BACKEND_URL, upstream, fileLog, route, envOf, proc, job,
                 emitted, raised, histVars, activePlatform>>

\* a proxy that writes every frame of the remote body as a line of its own
RemoteFrameReencoded(s, payload) ==
  /\ route[s] = "proxy"
  /\ ctrl[s] = "readable"
  /\ emitted[s] < MaxChunks
  /\ emitted' = [emitted EXCEPT ![s] = @ + 1]
  /\ produced' = [produced EXCEPT ![s] = Append(@, SseChunk(payload))]
  /\ pipe' = [pipe EXCEPT ![s] = @ \o writeSse(SseChunk(payload))]
  /\ sent' = [sent EXCEPT ![s] = @ \o writeSse(SseChunk(payload))]
  /\ UNCHANGED <<pageVars, browserVars, conn, query, BACKEND_URL, upstream, fileLog, route, envOf, ctrl, proc, job, raised>>
  /\ UNCHANGED <<tried, closes, heard, outcome, fetched, settled, parsed, lastTask, exited, activePlatform>>

\* the remote runner writes one frame into the proxied body
RemoteFrame(s, payload) ==
  /\ route[s] = "proxy"
  /\ ctrl[s] = "readable"
  /\ emitted[s] < MaxChunks
  /\ emitted' = [emitted EXCEPT ![s] = @ + 1]
  /\ produced' = [produced EXCEPT ![s] = Append(@, SseChunk(payload))]
  /\ pipe' = [pipe EXCEPT ![s] = Append(@, SseChunk(payload))]
  /\ sent' = [sent EXCEPT ![s] = Append(@, SseChunk(payload))]
  /\ UNCHANGED <<pageVars, browserVars, conn, query, BACKEND_URL, upstream, fileLog, route, envOf, ctrl, proc, job, raised>>
  /\ UNCHANGED <<tried, closes, heard, outcome, fetched, settled, parsed, lastTask, exited, activePlatform>>

\* the remote runner writes several frames, one after the other
RemoteWrite(s, payloads) ==
  /\ route[s] = "proxy"
  /\ ctrl[s] = "readable"
  /\ emitted[s] < MaxChunks
  /\ emitted' = [emitted EXCEPT ![s] = @ + 1]
  /\ LET frames == [i \in 1..Len(payloads) |-> SseChunk(payloads[i])] IN
     /\ produced' = [produced EXCEPT ![s] = @ \o frames]
     /\ pipe' = [pipe EXCEPT ![s] = @ \o frames]
     /\ sent' = [sent EXCEPT ![s] = @ \o frames]
  /\ UNCHANGED <<pageVars, browserVars, conn, query, BACKEND_URL, upstream, fileLog, route, envOf, ctrl, proc, job, raised>>
  /\ UNCHANGED <<tried, closes, heard, outcome, fetched, settled, parsed, lastTask, exited>>

\* the remote runner ends the body
RemoteEnd(s) ==
  /\ route[s] = "proxy"
  /\ ctrl[s] = "readable"
  /\ ctrl' = [ctrl EXCEPT ![s] = "closed"]
  /\ UNCHANGED <<pageVars, browserVars, netVars, BACKEND_URL, upstream, fileLog, route, envOf, proc, job, emitted,
                 raised, histVars, activePlatform>>

\* ------------------------------------------------------------- network
ErrorTask(s) == [es |-> s, type |-> <<"error">>, data |-> <<>>]

RECURSIVE TasksOf(_, _)
TasksOf(s, evs) ==
  IF evs = <<>> THEN <<>>
  ELSE <<[es |-> s, type |-> Head(evs).type, data |-> Head(evs).data]>> \o TasksOf(s, Tail(evs))

\* the next chunk of the response reaches the EventSource, which queues one
\* task per event the chunk completes
DeliverUpTo(s, cap) ==
  /\ conn[s] = "up"
  /\ pipe[s] # <<>>
  /\ LET p == Feed(parser[s], Head(pipe[s])) IN
     /\ Len(tasks) + Len(p.out) <= cap
     /\ tasks' = tasks \o TasksOf(s, p.out)
     /\ parser' = [parser EXCEPT ![s] = [p EXCEPT !.out = <<>>]]
     /\ heard' = [heard EXCEPT ![s] = @ \o p.out]
  /\ pipe' = [pipe EXCEPT ![s] = Tail(@)]
  /\ UNCHANGED <<pageVars, es, created, conn, query, serverVars>>
  /\ UNCHANGED <<sent, tried, produced, closes, outcome, fetched, settled, parsed, lastTask, exited, activePlatform>>

Deliver(s) == DeliverUpTo(s, MaxTasks)

\* the connection breaks
TransportFail(s) ==
  /\ conn[s] = "up"
  /\ conn' = [conn EXCEPT ![s] = "down"]
  /\ tasks' = Append(tasks, ErrorTask(s))
  /\ UNCHANGED <<pageVars, es, parser, created, query, pipe, serverVars, histVars, activePlatform>>

\* the response ends: every chunk of a closed stream was delivered, or the
\* response was not a 200 event stream
StreamEnd(s) ==
  /\ conn[s] = "up"
  /\ (ctrl[s] = "closed" /\ pipe[s] = <<>>) \/ route[s] \in {"threw", "refused"}
  /\ conn' = [conn EXCEPT ![s] = "down"]
  /\ tasks' = Append(tasks, ErrorTask(s))
  /\ UNCHANGED <<pageVars, es, parser, created, query, pipe, serverVars, histVars, activePlatform>>

\* ------------------------------------------------------- specifications
\* One run of the page against the route in either mode.
Next ==
  \/ ClickGenerate(FlowRuns)
  \/ PressEnter(FlowRuns)
  \/ \E t \in FlowTopics : SetTopic(t)
  \/ CheckServerStatus
  \/ \E ok \in BOOLEAN : HealthResult(ok)
  \/ Unmount
  \/ Dispatch
  \/ \E s \in Ids : FetchContent(s, [kind |-> "ok", body |-> RawPosts])
  \/ \E s \in Ids, k \in {"notok", "throw"} : FetchContent(s, [kind |-> k, body |-> <<>>])
  \/ \E s \in Ids : FetchReport(s, [kind |-> "ok", body |-> RawReport])
  \/ \E s \in Ids, k \in {"notok", "throw"} : FetchReport(s, [kind |-> k, body |-> <<>>])
  \/ \E s \in Ids, a \in {"rejects", "status", "ok"} : RouteGetRemote(s, a)
  \/ \E s \in Ids, cfg \in FlowEnvs : RouteGetLocal(s, cfg)
  \/ \E s \in Ids, d \in FlowChunks : ProcData(s, d)
  \/ \E s \in Ids, code \in Codes, ex \in FlowExists : ProcClose(s, code, ex)
  \/ \E s \in Ids : Cancel(s)
  \/ \E s \in Ids, p \in RemotePayloads : RemoteFrame(s, p)
  \/ \E s \in Ids : RemoteEnd(s)
  \/ \E s \in Ids : Deliver(s)
  \/ \E s \in Ids : TransportFail(s)
  \/ \E s \in Ids : StreamEnd(s)

Spec == Init /\ [][Next]_vars

\* Several runs of the page against the proxied remote runner.
InitRerun == Init /\ backendUrl

NextRerun ==
  \/ ClickGenerate(MaxRuns)
  \/ PressEnter(MaxRuns)
  \/ \E ok \in BOOLEAN : HealthResult(ok)
  \/ Unmount
  \/ Dispatch
  \/ \E s \in Ids : FetchContent(s, [kind |-> "ok", body |-> RawPosts])
  \/ \E s \in Ids : FetchContent(s, [kind |-> "throw", body |-> <<>>])
  \/ \E s \in Ids : FetchReport(s, [kind |-> "ok", body |-> RawReport])
  \/ \E s \in Ids : FetchReport(s, [kind |-> "notok", body |-> <<>>])
  \/ \E s \in Ids, a \in {"rejects", "ok"} : RouteGetRemote(s, a)
  \/ \E s \in Ids : Cancel(s)
  \/ \E s \in Ids, p \in RemotePayloads : RemoteFrame(s, p)
  \/ \E s \in Ids : RemoteEnd(s)
  \/ \E s \in Ids : Deliver(s)
  \/ \E s \in Ids : TransportFail(s)
  \/ \E s \in Ids : StreamEnd(s)

SpecRerun == InitRerun /\ [][NextRerun]_vars

\* One local job with every chunk of up to MaxChunkLen tokens.
InitLocal == Init /\ ~backendUrl

NextOrder ==
  \/ PressEnter(FlowRuns)
  \/ \E s \in Ids : RouteGetLocal(s, OrderEnv)
  \/ \E s \in Ids, d \in AllChunks : ProcData(s, d)
  \/ \E s \in Ids : ProcClose(s, "0", OrderExists)
  \/ \E s \in Ids : Deliver(s)
  \/ Dispatch

SpecOrder == InitLocal /\ [][NextOrder]_vars

\* One local launch in every launch environment.
NextLaunch ==
  \/ PressEnter(FlowRuns)
  \/ \E s \in Ids, cfg \in AllEnvs : RouteGetLocal(s, cfg)
  \/ \E s \in Ids, code \in Codes : ProcClose(s, code, OrderExists)
  \/ \E s \in Ids : Deliver(s)
  \/ Dispatch
  \/ \E s \in Ids : StreamEnd(s)

SpecLaunch == InitLocal /\ [][NextLaunch]_vars

\* One local job that exits with every exit code and every combination of
\* output files on disk.
NextExit ==
  \/ PressEnter(FlowRuns)
  \/ \E s \in Ids : RouteGetLocal(s, OrderEnv)
  \/ \E s \in Ids, d \in FlowChunks : ProcData(s, d)
  \/ \E s \in Ids, code \in Codes, ex \in AllExists : ProcClose(s, code, ex)
  \/ \E s \in Ids : Cancel(s)
  \/ \E s \in Ids : Deliver(s)
  \/ \E s \in Ids : TransportFail(s)
  \/ Dispatch

SpecExit == InitLocal /\ [][NextExit]_vars

\* One local request with every base environment and backend/.env.
NextEnv ==
  \/ PressEnter(FlowRuns)
  \/ \E s \in Ids : route[s] = "pending" /\ \E cfg \in EnvCfgs : RouteGetLocal(s, cfg)
  \/ \E s \in Ids : Deliver(s)

SpecEnv == InitLocal /\ [][NextEnv]_vars

\* One request with every topic against a server with every BACKEND_URL.
InitRemote == \E url \in BackendUrls : InitAt(url)

NextRemote ==
  \/ PressEnter(FlowRuns)
  \/ \E t \in Topics : SetTopic(t)
  \/ \E s \in Ids, a \in {"rejects", "status", "ok"} : RouteGetRemote(s, a)
  \/ \E s \in Ids : RouteGetLocal(s, OrderEnv)
  \/ \E s \in Ids, p \in RemotePayloads : RemoteFrame(s, p)
  \/ \E s \in Ids : RemoteEnd(s)
  \/ \E s \in Ids : Deliver(s)
  \/ Dispatch
  \/ \E s \in Ids : StreamEnd(s)

SpecRemote == InitRemote /\ [][NextRemote]_vars

\* Two requests, from the page or from another client, with every topic
\* parameter, in either mode.
NextTopic ==
  \/ PressEnter(MaxRuns)
  \/ \E t \in Topics : SetTopic(t)
  \/ \E q \in TopicQueries : Request(q)
  \/ \E s \in Ids : RouteGetRemote(s, "ok")
  \/ \E s \in Ids, cfg \in TopicEnvs : RouteGetLocal(s, cfg)
  \/ \E s \in Ids : ProcData(s, <<"a", LF>>)
  \/ \E s \in Ids : ProcClose(s, "0", OrderExists)
  \/ \E s \in Ids : RemoteFrame(s, <<"a">>)

SpecTopic == Init /\ [][NextTopic]_vars

\* names of requested files
FileNames == SeqsUpTo({"a", ".", "/", LF, "md", "json", "txt"}, MaxNameLen)

\* what the remote runner or the disk answers
Origins ==
  [rejects : {FALSE}, status : {"200", "404"}, ctype : {NoType, Markdown, "text/html"},
   exists : {TRUE}, readable : BOOLEAN]
  \cup [rejects : {TRUE}, status : {"200"}, ctype : {NoType}, exists : {FALSE}, readable : {FALSE}]

\* Requests to the file route with every name, in either mode.
NextFile ==
  \/ Len(fileLog) < MaxFileGets /\ \E name \in FileNames, origin \in Origins : FileGet(name, origin)

SpecFile == Init /\ [][NextFile]_vars

\* One run of the page against the route in either mode, social_posts.json
\* being a document or a text that is not JSON.
NextErrors ==
  \/ Next
  \/ \E s \in Ids : FetchContent(s, [kind |-> "ok", body |-> Garbage])

SpecErrors == Init /\ [][NextErrors]_vars

\* The end-to-end scenario: a topic is typed, the run is started, the
\* remote runner writes three plain lines and the completed message, and
\* the two artifacts are a document of five platforms and a report.
ScenarioTopics == {<<"AI productivity tools">>, <<"AI", " ", "tools">>}

ScenarioLines == {<<"a">>, <<"b">>}

ScenarioStreams ==
  {<<l1, l2, l3, <<TokCompleted>>>> : l1 \in ScenarioLines, l2 \in ScenarioLines, l3 \in ScenarioLines}

FivePlatforms(ps) ==
  <<[name |-> "Li", posts |-> ps], [name |-> "X", posts |-> ps], [name |-> "ig", posts |-> ps],
    [name |-> "fb", posts |-> ps], [name |-> "tt", posts |-> ps]>>

ScenarioTexts ==
  {TextOf(doc) : doc \in UNION {{Shape1(FivePlatforms(ps), FALSE), Shape2("platforms", FivePlatforms(ps)),
                                  Shape3(FivePlatforms(ps)), Shape4(FivePlatforms(ps))} :
                                 ps \in {<<PA>>, <<PA, PB>>}}}

Progress ==
  \/ \E s \in Ids : RouteGetRemote(s, "ok")
  \/ \E s \in Ids : emitted[s] = 0 /\ \E ps \in ScenarioStreams : RemoteWrite(s, ps)
  \/ \E s \in Ids : Deliver(s)
  \/ Dispatch
  \/ \E s \in Ids : FetchReport(s, [kind |-> "ok", body |-> RawReport])

ContentFetch ==
  \E s \in Ids : cont[s].pc = "content"
                  /\ \E text \in ScenarioTexts : FetchContent(s, [kind |-> "ok", body |-> text])

NextScenario ==
  \/ \E t \in ScenarioTopics : SetTopic(t)
  \/ HealthResult(TRUE)
  \/ ClickGenerate(FlowRuns)
  \/ PressEnter(FlowRuns)
  \/ Progress
  \/ ContentFetch

\* The server answers, the network delivers and the browser runs its tasks.
\* The fetch of social_posts.json is answered as well: it is enabled exactly
\* while a continuation waits at "content" and it moves the continuation on,
\* so weak fairness of ContentFetch is that no continuation waits forever.
ContentFetchSettles == \A s \in Ids : []<>(cont[s].pc # "content")

SpecScenario == InitRerun /\ [][NextScenario]_vars /\ WF_vars(Progress) /\ ContentFetchSettles

\* Several runs of the page against local jobs: a job prints the completed
\* message or a plain line, the connection may break, the page may unmount.
NextOrphan ==
  \/ PressEnter(MaxRuns)
  \/ Unmount
  \/ \E s \in Ids : RouteGetLocal(s, OrderEnv)
  \/ \E s \in Ids : ProcData(s, <<TokCompleted, LF>>)
  \/ \E s \in Ids : ProcClose(s, "0", OrderExists)
  \/ \E s \in Ids : Cancel(s)
  \/ \E s \in Ids : Deliver(s)
  \/ \E s \in Ids : TransportFail(s)
  \/ Dispatch
  \/ \E s \in Ids : FetchContent(s, [kind |-> "ok", body |-> RawPosts])
  \/ \E s \in Ids : FetchReport(s, [kind |-> "ok", body |-> RawReport])

SpecOrphan == InitLocal /\ [][NextOrphan]_vars

\* One run in either mode whose stream carries up to MaxChunks status
\* messages, the named event done after them in local mode; the browser may
\* have queued up to MaxQueued events before it runs the first.
MaxQueued == 7

NextSignals ==
  \/ PressEnter(FlowRuns)
  \/ \E s \in Ids : RouteGetRemote(s, "ok")
  \/ \E s \in Ids, p \in {<<TokCompleted>>, <<TokFailedMsg>>} : RemoteFrame(s, p)
  \/ \E s \in Ids : RemoteEnd(s)
  \/ \E s \in Ids : RouteGetLocal(s, OrderEnv)
  \/ \E s \in Ids, d \in {<<TokCompleted, LF>>, <<TokFailedMsg, LF>>} : ProcData(s, d)
  \/ \E s \in Ids : ProcClose(s, "0", OrderExists)
  \/ \E s \in Ids : Cancel(s)
  \/ \E s \in Ids : DeliverUpTo(s, MaxQueued)
  \/ \E s \in Ids : StreamEnd(s)
  \/ \E s \in Ids : TransportFail(s)
  \/ Dispatch
  \/ \E s \in Ids : FetchContent(s, [kind |-> "ok", body |-> RawPosts])
  \/ \E s \in Ids : FetchReport(s, [kind |-> "ok", body |-> RawReport])

SpecSignals == Init /\ [][NextSignals]_vars

\* One completed run whose social_posts.json is any of the texts.
NextParse ==
  \/ PressEnter(FlowRuns)
  \/ \E s \in Ids : RouteGetRemote(s, "ok")
  \/ \E s \in Ids : RemoteFrame(s, <<TokCompleted>>)
  \/ \E s \in Ids : Deliver(s)
  \/ Dispatch
  \/ \E s \in Ids, text \in ParseTexts : FetchContent(s, [kind |-> "ok", body |-> text])
  \/ \E s \in Ids : FetchReport(s, [kind |-> "ok", body |-> RawReport])
  \/ \E p \in Names \cup {"li", "general"} : SetActivePlatform(p)

SpecParse == InitRerun /\ [][NextParse]_vars

\* One completed run whose social_posts.json holds one post, with every
\* combination of the fields a card reads.
NextCards ==
  \/ PressEnter(FlowRuns)
  \/ \E s \in Ids : RouteGetRemote(s, "ok")
  \/ \E s \in Ids : RemoteFrame(s, <<TokCompleted>>)
  \/ \E s \in Ids : Deliver(s)
  \/ Dispatch
  \/ \E s \in Ids, text \in CardTexts : FetchContent(s, [kind |-> "ok", body |-> text])
  \/ \E s \in Ids : FetchReport(s, [kind |-> "ok", body |-> RawReport])

SpecCards == InitRerun /\ [][NextCards]_vars

\* Several completed runs, each with its own social_posts.json, and the
\* clicks on the platform tabs between them.
NextView ==
  \/ PressEnter(MaxRuns)
  \/ \E s \in Ids : RouteGetRemote(s, "ok")
  \/ \E s \in Ids : RemoteFrame(s, <<TokCompleted>>)
  \/ \E s \in Ids : Deliver(s)
  \/ Dispatch
  \/ \E s \in Ids, text \in ViewTexts : FetchContent(s, [kind |-> "ok", body |-> text])
  \/ \E s \in Ids, k \in {"notok", "throw"} : FetchContent(s, [kind |-> k, body |-> <<>>])
  \/ \E s \in Ids : FetchReport(s, [kind |-> "ok", body |-> RawReport])
  \/ \E p \in Names \cup {"li", "general"} : SetActivePlatform(p)

SpecView == InitRerun /\ [][NextView]_vars


\* ---------------------------------------------------------------------------
\* Properties

\* a terminal status message of stream s has been handled by the page
Terminal(s) == \E i \in 1..Len(outcome[s]) : outcome[s][i] \in {"completed", "failed"}

\* the step takes an error notification of some stream off the task queue
ErrorArrives == tasks # <<>> /\ tasks' = Tail(tasks) /\ Head(tasks).type = <<"error">>

\* C1: whenever an error notification of a run's stream arrives after the
\* page handled a terminal status message (completed or failed) of that
\* stream, the error shown to the user is left as it was; whenever it arrives
\* while the page is mounted and no terminal message of the stream was
\* handled, the error shown becomes the connection error.
C1_ErrorAfterTerminalIsSilent ==
  [][ErrorArrives =>
       LET s == Head(tasks).es IN
       /\ Terminal(s) => error' = error
       /\ (outcome[s] = <<>> /\ mounted) => error' = ConnErr]_vars

\* C1 witness: an error notification arrived after a completed message and
\* no error is shown
C1_Witness ==
  /\ lastTask.type = <<"error">>
  /\ lastTask.es # 0
  /\ lastTask.latched
  /\ outcome[lastTask.es] = <<"completed">>
  /\ error = NoError

\* the status messages among the events the page's EventSource parsed
StatusEvents(evs) ==
  SelectSeq(evs, LAMBDA e : e.type = <<"message">> /\ StatusOf(e.data) # "other")

\* the whole response of stream s reached the client, its last event is the
\* named event done of a process that exited with code 0, and no inline
\* status message came before it
EndsWithDone(s) ==
  /\ ctrl[s] = "closed"
  /\ pipe[s] = <<>>
  /\ heard[s] # <<>>
  /\ Last(heard[s]) = [type |-> <<"done">>, data |-> <<"0">>]
  /\ StatusEvents(heard[s]) = <<>>

\* the first status message the client received on stream s says completed
CarriesCompleted(s) ==
  /\ StatusEvents(heard[s]) # <<>>
  /\ StatusOf(Head(StatusEvents(heard[s])).data) = "completed"

\* the run of stream s is over: a handler closed the stream and no artifact
\* fetch of the run is outstanding
RunEnded(s) == mounted /\ es[s] = "closed" /\ cont[s].pc = "idle"

\* the run of stream s ended as a completed run: the only outcome the page
\* recorded is completed (the latch was set by it and the error handler never
\* ran), and both artifacts were fetched
EndedCompleted(s) ==
  /\ outcome[s] = <<"completed">>
  /\ fetched[s] = <<"social_posts.json", "analytics_summary.md">>
  /\ Len(settled[s]) = 2

\* C2: completion is detected under either terminal convention: a run whose
\* stream ended with the named frame event: done, and a run whose stream
\* carried the inline message {"status":"completed"}, both end as completed
\* runs, with the artifacts fetched and no error path taken.
C2_CompletionUnderEitherConvention ==
  \A s \in Ids :
    (RunEnded(s) /\ (EndsWithDone(s) \/ CarriesCompleted(s))) => EndedCompleted(s)

\* C4: once the stream of a job was cancelled before a terminal frame was
\* written, no step of the route enqueues a frame for that job, closes the
\* controller or raises.
C4_NoWriteAfterCancel ==
  [][\A s \in Ids :
       (ctrl[s] = "cancelled" /\ closes[s] = 0) =>
         /\ sent'[s] = sent[s]
         /\ closes'[s] = closes[s]
         /\ raised'[s] = raised[s]]_vars

\* the launch of the job of stream s failed: no local candidate gave a
\* child, or the request to the remote runner was rejected
LaunchFailed(s) == (route[s] = "local" /\ job[s] = <<>>) \/ route[s] = "threw"

\* C9: a launch failure is reported to the client as a terminal failed
\* signal: when the run of a failed launch is over, the client had received
\* a status message saying failed and the only outcome recorded is failed
\* (the error shown is then the text that message carried).
C9_LaunchFailureReportedAsFailed ==
  \A s \in Ids :
    (LaunchFailed(s) /\ RunEnded(s)) =>
      /\ StatusEvents(heard[s]) # <<>>
      /\ outcome[s] = <<"failed">>

\* the sequence s ends with the chunks of t
EndsWith(s, t) == Len(s) >= Len(t) /\ SubSeq(s, Len(s) - Len(t) + 1, Len(s)) = t

\* C3: in the local path the route closes the response stream at most once,
\* and only right after a terminal frame: the last chunks written are the
\* frame event: error when no child was obtained, or the frame event: done
\* once the child closed.  When no child was obtained, and when the child
\* closed, the stream has been closed once: by the route, or before that by
\* the client's cancel.
C3_ClosedOnceAfterTerminalFrame ==
  \A s \in Ids :
    route[s] = "local" =>
      /\ closes[s] <= 1
      /\ closes[s] = 1 =>
            \/ /\ job[s] = <<>>
               /\ EndsWith(sent[s], writeEvent(<<"error">>, <<SpawnErr>>))
            \/ /\ job[s] # <<>>
               /\ proc[s] = "closed"
               /\ \E code \in Codes : EndsWith(sent[s], writeEvent(<<"done">>, CodeText(code)))
      /\ job[s] = <<>> => closes[s] = 1
      /\ proc[s] = "closed" => (closes[s] = 1 \/ ctrl[s] = "cancelled")

\* C3 witness: the child closed, the frame event: done is the last thing
\* written and the route closed the stream once
C3_Witness ==
  \E s \in Ids :
    /\ proc[s] = "closed"
    /\ closes[s] = 1
    /\ EndsWith(sent[s], writeEvent(<<"done">>, <<"0">>))

\* C6: at most one EventSource the page created is open, and an open one is
\* the one held in esRef.
C6_AtMostOneOpen ==
  /\ Cardinality({s \in Ids : es[s] = "open"}) <= 1
  /\ \A s \in Ids : es[s] = "open" => esRef = s

\* C6 witness: a second run was started; the stream of the first is closed
\* and the stream of the second is open
C6_Witness == created = 2 /\ es[1] = "closed" /\ es[2] = "open"

Half(kind, body) == IF kind = "ok" THEN body ELSE EmptyText

\* the agent and the text of each message
AgentContent(ms) ==
  [i \in 1..Len(ms) |-> [agent |-> ms[i].agent, content |-> ms[i].content]]

Payloads(evs) ==
  LET ms == SelectSeq(evs, LAMBDA e : e.type = <<"message">>)
  IN [i \in 1..Len(ms) |-> ms[i].data]

\* payloads joined by line feeds
RECURSIVE JoinLF(_)
JoinLF(ps) ==
  IF ps = <<>> THEN <<>>
  ELSE IF Len(ps) = 1 THEN Head(ps)
  ELSE Head(ps) \o <<LF>> \o JoinLF(Tail(ps))

\* a line as an event-stream parser reads it out of a data: frame: a
\* carriage return inside the line ends the field
RECURSIVE UpToCR(_)
UpToCR(line) ==
  IF line = <<>> \/ Head(line) = CR THEN <<>> ELSE <<Head(line)>> \o UpToCR(Tail(line))

\* the lines of the job of stream s in the order they were produced: the
\* route's own opening lines, the non-empty lines of each output chunk in
\* the order of arrival of the chunks, then the given closing lines
LinesProduced(s, closing) ==
  Preamble(TopicOf(query[s]), envOf[s]) \o spawnCliOrPython(envOf[s]).lines
  \o Concat([i \in 1..Len(produced[s]) |-> NonEmptyLines(SplitLines(produced[s][i]))])
  \o closing

\* the message payloads the page has handled: those whose task has run,
\* up to the status message on which the page closed the stream
Handled(s) ==
  LET ps == Payloads(heard[s])
      waiting == Len(SelectSeq(tasks, LAMBDA t : t.es = s /\ t.type = <<"message">>))
      status == {i \in 1..Len(ps) : StatusOf(ps[i]) # "other"}
      upto == IF status = {} THEN Len(ps) ELSE CHOOSE i \in status : \A j \in status : i <= j
      n == IF Len(ps) - waiting < upto THEN Len(ps) - waiting ELSE upto
  IN SubSeq(ps, 1, n)

\* the chunks and the client's view agree with the lines ls in order
InOrder(s, ls, done) ==
  LET ps == Payloads(heard[s]) IN
  /\ sent[s] = WriteLines(ls) \o done
  /\ Len(ps) <= Len(ls)
  /\ \A i \in 1..Len(ps) : ps[i] = UpToCR(ls[i])
  /\ (pipe[s] = <<>>) => Len(ps) = Len(ls)
  /\ logs = JoinLF(Handled(s))

\* C5: the route has enqueued exactly one data: frame per non-empty line, in
\* the order of the lines within each chunk and of the chunks; the client
\* receives one message per frame in that order, each payload being the
\* line (as far as its first bare carriage return, if it has one); and the
\* log is the payloads the page handled, joined in arrival order.
C5_SignalsInOrder ==
  \A s \in Ids :
    (route[s] = "local" /\ job[s] # <<>>) =>
      IF closes[s] = 0
      THEN InOrder(s, LinesProduced(s, <<>>), <<>>)
      ELSE \E code \in Codes, ex \in AllExists :
             InOrder(s, LinesProduced(s, CloseLines(code, ex)),
                     writeEvent(<<"done">>, CodeText(code)))

\* C5 witness: two chunks, the first with two lines, were written, all
\* frames reached the page and the log holds every line in order
C5_Witness ==
  \E s \in Ids :
    /\ produced[s] = << <<"a", LF, "a">>, <<"a", CR, LF>> >>
    /\ proc[s] = "closed"
    /\ pipe[s] = <<>>
    /\ tasks = <<>>
    /\ logs = JoinLF(LinesProduced(s, CloseLines("0", OrderExists)))

\* the launch candidates of an environment in the documented order
LaunchOrder(cfg) ==
  (IF cfg.venv THEN <<Crewai>> ELSE <<>>)
  \o (IF Trim(cfg.pythonBin) # <<>> THEN <<Trim(cfg.pythonBin)>> ELSE <<>>)
  \o <<Python3, Python>>

\* the position in LaunchOrder of the first candidate whose process starts,
\* 0 when none does
FirstStarting(cfg) ==
  LET o == LaunchOrder(cfg)
      I == {i \in 1..Len(o) : cfg.outcome[o[i]] = "runs"}
  IN IF I = {} THEN 0 ELSE CHOOSE i \in I : \A j \in I : i <= j

\* C10: the candidates are tried in the fixed order, one after the other
\* until the first whose process starts, which is the job; when none
\* starts the frame event: error is written, the stream is closed and no
\* process is listened to.
C10_FirstStartingCandidateIsJob ==
  \A s \in Ids :
    route[s] = "local" =>
      LET cfg == envOf[s]
          o == LaunchOrder(cfg)
          k == FirstStarting(cfg)
      IN /\ tried[s] = SubSeq(o, 1, IF k = 0 THEN Len(o) ELSE k)
         /\ job[s] = (IF k = 0 THEN <<>> ELSE o[k])
         /\ k = 0 =>
              /\ EndsWith(sent[s], writeEvent(<<"error">>, <<SpawnErr>>))
              /\ closes[s] = 1
              /\ proc[s] = "none"

\* the frame of the named event done carrying the text c
DoneFrame(c) == << <<"event: ", "done", LF>>, <<"data: ", c, LF, LF>> >>

\* the frames of the two lines that report whether social_posts.json and
\* analytics_summary.md exist
ExistFrames(ex) ==
  << <<"data: ", "Check output: social_posts.json exists? ", BoolText(ex.json), LF, LF>>,
     <<"data: ", "Check output: analytics_summary.md exists? ", BoolText(ex.md), LF, LF>> >>

\* the exit code as the frames carry it
Shown(code) == IF code = Null THEN "-1" ELSE code

\* the route handled the exit of the process of stream s and closed the stream
ExitWritten(s) == proc[s] = "closed" /\ closes[s] = 1 /\ exited[s] # <<>>

\* C11 (as stated): once the exit of the process was handled, the stream
\* holds the terminal marker event: done carrying the exit code, followed by
\* the lines that report whether the two output files exist.
C11_MarkerThenDiagnostics ==
  \A s \in Ids :
    ExitWritten(s) =>
      \E i \in 1..Len(sent[s]) :
        /\ i + 3 <= Len(sent[s])
        /\ SubSeq(sent[s], i, i + 1) = DoneFrame(Shown(exited[s][1].code))
        /\ SubSeq(sent[s], i + 2, i + 3) = ExistFrames(exited[s][1].ex)

\* C11 (amended): once the exit of the process was handled, the last
\* frames of the stream are, in this order: the line with the exit code
\* (-1 when the code is null), the working directory line, the lines that
\* report whether social_posts.json, analytics_summary.md and run.log exist
\* at that moment, and last the terminal marker event: done carrying the
\* same exit code.
C11_DiagnosticsThenMarker ==
  \A s \in Ids :
    ExitWritten(s) =>
      LET code == exited[s][1].code
          ex == exited[s][1].ex
      IN EndsWith(sent[s],
           << <<"data: ", "Process exited with code: ", Shown(code), LF, LF>>,
              <<"data: ", "Backend CWD was: backend", LF, LF>> >>
           \o ExistFrames(ex)
           \o << <<"data: ", "Check log: run.log exists? ", BoolText(ex.log), LF, LF>> >>
           \o DoneFrame(Shown(code)))

\* C11 witness: a process ended without an exit code while only the report
\* was on disk, and its exit was written to the stream
C11_Witness ==
  \E s \in Ids :
    /\ ExitWritten(s)
    /\ exited[s][1].code = Null
    /\ exited[s][1].ex = [json |-> FALSE, md |-> TRUE, log |-> FALSE]

\* the content of social_posts.json was fetched and parsed as JSON: its
\* value, and the document kept with the message
Fetched == contentCreatorMsg # <<>> /\ contentCreatorMsg[1].content.t = "text"

Input == contentCreatorMsg[1].content.a[1]

Document == contentCreatorMsg[1].parsedPosts

\* the five shapes as the specification describes them
IsNameRecord(e) ==
  e.t = "obj" /\ Get(e, "name").t = "str" /\ Get(e, "posts").t \in {"arr", "undefined"}

IsPlatformRecord(e) == e.t = "obj" /\ Get(e, "platform").t \in {"str", "undefined"}

FieldsNamed(v, name) == {i \in 1..Len(v.a) : toLowerCase(v.a[i].s) = name}

Matches1(v) ==
  /\ v.t = "obj"
  /\ Get(v, "platforms").t = "arr"
  /\ \A i \in 1..Len(Get(v, "platforms").a) : IsNameRecord(Get(v, "platforms").a[i])

Matches2(v) ==
  /\ v.t = "obj"
  /\ \E i \in FieldsNamed(v, "platforms") : v.a[i].a[1].t = "obj"

Matches3(v) ==
  /\ v.t = "obj"
  /\ \E i \in 1..Len(v.a) :
       /\ i \notin FieldsNamed(v, "platforms") \cup FieldsNamed(v, "posts")
       /\ v.a[i].a[1].t = "arr"

Matches4(v) == v.t = "obj" /\ Get(v, "posts").t = "obj"

Matches5(v) == v.t = "arr" /\ \A i \in 1..Len(v.a) : IsPlatformRecord(v.a[i])

\* the first shape, in the order of the specification, that v matches; 0 if none
ShapeOf(v) ==
  IF Matches1(v) THEN 1
  ELSE IF Matches2(v) THEN 2
  ELSE IF Matches3(v) THEN 3
  ELSE IF Matches4(v) THEN 4
  ELSE IF Matches5(v) THEN 5
  ELSE 0

\* the posts of an input with the platform name each is filed under, in
\* the order of the input
Tagged(name, ps) == [i \in 1..Len(ps) |-> [name |-> name, post |-> ps[i]]]

MapPosts(m) ==
  Concat([i \in 1..Len(m.a) |->
            IF m.a[i].a[1].t = "arr" THEN Tagged(m.a[i].s, m.a[i].a[1].a) ELSE <<>>])

InputPosts(v) ==
  CASE ShapeOf(v) = 1 ->
         LET rs == Get(v, "platforms").a IN
         Concat([i \in 1..Len(rs) |->
                   IF Get(rs[i], "posts").t = "arr"
                   THEN Tagged(Get(rs[i], "name").s, Get(rs[i], "posts").a)
                   ELSE <<>>])
    [] ShapeOf(v) = 2 ->
         MapPosts(v.a[CHOOSE i \in FieldsNamed(v, "platforms") : v.a[i].a[1].t = "obj"].a[1])
    [] ShapeOf(v) = 3 ->
         MapPosts(JObj(SelectSeq(v.a,
           LAMBDA kv : toLowerCase(kv.s) \notin {"platforms", "posts"})))
    [] ShapeOf(v) = 4 -> MapPosts(Get(v, "posts"))
    [] ShapeOf(v) = 5 ->
         [i \in 1..Len(v.a) |->
            [name |-> IF Get(v.a[i], "platform").t = "str"
                      THEN Get(v.a[i], "platform").s ELSE "general",
             post |-> v.a[i]]]
    [] OTHER -> <<>>

\* the posts filed under a name that is key in lower case
PostsUnder(tagged, key) ==
  LET mine == SelectSeq(tagged, LAMBDA tp : toLowerCase(tp.name) = key)
  IN [i \in 1..Len(mine) |-> mine[i].post]

RECURSIVE IsSubSeq(_, _)
IsSubSeq(xs, ys) ==
  IF xs = <<>> THEN TRUE
  ELSE IF ys = <<>> THEN FALSE
  ELSE IF Head(xs) = Head(ys) THEN IsSubSeq(Tail(xs), Tail(ys))
  ELSE IsSubSeq(xs, Tail(ys))

\* C12: when the fetched social_posts.json is an input of one of the five
\* shapes, the document kept with the message is a map whose keys are all
\* lower case and in which, for every platform name of the input, the bucket
\* under the name in lower case holds every post the input files under that
\* name, in the order of the input.
C12_EveryPostKept ==
  (Fetched /\ ShapeOf(Input) # 0) =>
     /\ Document.t = "obj"
     /\ \A i \in 1..Len(Document.a) : toLowerCase(Document.a[i].s) = Document.a[i].s
     /\ \A j \in 1..Len(InputPosts(Input)) :
          LET key == toLowerCase(InputPosts(Input)[j].name) IN
          /\ Get(Document, key).t = "arr"
          /\ IsSubSeq(PostsUnder(InputPosts(Input), key), Get(Document, key).a)

\* v carries the {raw, error} pair
HasEscape(v) ==
  v.t = "obj" /\ Get(v, "raw").t # "undefined" /\ Get(v, "error").t # "undefined"

\* C13: when the text fetched for social_posts.json is not valid JSON, or
\* its value carries the {raw, error} pair, or its value matches none of the
\* five shapes, parsePostsJson raised nothing and returned null: the
\* message holds no document.
C13_NoDocumentForOtherInput ==
  (contentCreatorMsg # <<>> /\ contentCreatorMsg[1].content.t # "empty") =>
     LET text == contentCreatorMsg[1].content IN
     (text.t # "text" \/ HasEscape(text.a[1]) \/ ShapeOf(text.a[1]) = 0) =>
        /\ Document # Throw
        /\ Document = Undefined

\* the shapes v matches
ShapesOf(v) ==
  {k \in 1..5 : \/ k = 1 /\ Matches1(v)
                \/ k = 2 /\ Matches2(v)
                \/ k = 3 /\ Matches3(v)
                \/ k = 4 /\ Matches4(v)
                \/ k = 5 /\ Matches5(v)}

\* the document of shape k for an input that matches it
ResultOf(k, v) ==
  CASE k = 1 -> Structure1(Get(v, "platforms").a, <<>>)
    [] k = 2 -> normalizeKeys(v.a[CHOOSE i \in FieldsNamed(v, "platforms") : v.a[i].a[1].t = "obj"].a[1])
    [] k = 3 -> normalizeKeys(v)
    [] k = 4 -> normalizeKeys(Get(v, "posts"))
    [] k = 5 -> Structure5(v.a, <<>>)

\* C14: when the fetched social_posts.json matches more than one shape, the
\* document kept with the message is the document of the first shape it
\* matches in the order 1 (platforms sequence), 2 (platforms map), 3 (direct
\* platform keys), 4 (posts map), 5 (flat sequence).
C14_FirstMatchingShapeWins ==
  (Fetched /\ Cardinality(ShapesOf(Input)) >= 2) =>
     Document = ResultOf(ShapeOf(Input), Input)

\* C15: when no key of the fetched object other than its platforms and
\* posts fields is sequence-valued, the object is not treated as a direct
\* platform map: the document kept with the message has no bucket
\* "platforms" or "posts" that is the sequence held by the object's own
\* field of that name.
C15_DirectMapDecidedOnOtherKeys ==
  (Fetched /\ Input.t = "obj" /\ ~Matches3(Input)) =>
     \A i \in FieldsNamed(Input, "platforms") \cup FieldsNamed(Input, "posts") :
        Input.a[i].a[1].t = "arr" =>
           ~(/\ Document.t = "obj"
             /\ Get(Document, toLowerCase(Input.a[i].s)) = Input.a[i].a[1])

C17_DisplayedPlatformIsExposed ==
  /\ \A k \in Names \cup {"li", "general"} :
        Includes(platforms, k) <=>
           /\ contentCreatorMsg # <<>>
           /\ Document.t = "obj"
           /\ Get(Document, k).t = "arr"
           /\ Get(Document, k).a # <<>>
  /\ \A i \in 1..Len(platforms) : platforms[i] \in Names \cup {"li", "general"}
  /\ platforms # <<>> => Includes(platforms, effectivePlatform)

\* C17 witness: a second run delivered a document whose only populated
\* bucket is not the platform selected before; that bucket is displayed
C17_Witness ==
  /\ created = 2
  /\ platforms = <<"li">>
  /\ Get(Document, "x") = JArr(<<>>)
  /\ effectivePlatform = "li"

\* the field of post is populated: a non-empty string
Populated(post, name) == TypeofString(Get(post, name)) /\ Truthy(Get(post, name))

\* the value of the first populated field among names, the empty string if none
RECURSIVE Resolved(_, _)
Resolved(post, names) ==
  IF names = <<>> THEN JStr("")
  ELSE IF Populated(post, Head(names)) THEN Get(post, Head(names))
  ELSE Resolved(post, Tail(names))

\* C18: every card shown resolves each of its texts from the first
\* populated field of its post in the order canonical field, then synonyms:
\* hook from hook, title, headline; body from body, content, text,
\* description; cta from cta, call_to_action; and its hashtags from the field
\* hashtags when that is populated, else from tags.
C18_SynonymsResolveCanonicalFirst ==
  \A i \in 1..Len(Cards) :
    LET post == Cards[i].post
        card == Cards[i].card
    IN /\ card.hook = Resolved(post, <<"hook", "title", "headline">>)
       /\ card.body = Resolved(post, <<"body", "content", "text", "description">>)
       /\ card.cta = Resolved(post, <<"cta", "call_to_action">>)
       /\ card.hashtags =
            PostCard(JObj(<<KV("hashtags",
               IF Truthy(Get(post, "hashtags")) THEN Get(post, "hashtags")
               ELSE Get(post, "tags"))>>)).hashtags

\* C18 witness: a card for a post whose hook is the empty string and whose
\* title and headline are populated, with body populated next to content
\* and only call_to_action for the cta: the card shows the title, the body
\* and the call to action
C18_Witness ==
  \E i \in 1..Len(Cards) :
    /\ Get(Cards[i].post, "hook") = JStr("")
    /\ Populated(Cards[i].post, "title")
    /\ Populated(Cards[i].post, "headline")
    /\ Populated(Cards[i].post, "body")
    /\ Populated(Cards[i].post, "content")
    /\ ~Populated(Cards[i].post, "cta")
    /\ Cards[i].card.hook = JStr("title")
    /\ Cards[i].card.body = JStr("body")
    /\ Cards[i].card.cta = JStr("action")

\* the tokens of a string: its maximal runs of characters that are not
\* white space, in order
RECURSIVE TokensOf(_, _)
TokensOf(cs, token) ==
  IF cs = <<>> THEN (IF token = <<>> THEN <<>> ELSE <<JChars(token)>>)
  ELSE IF Head(cs) \in {Space, Tab}
       THEN (IF token = <<>> THEN <<>> ELSE <<JChars(token)>>) \o TokensOf(Tail(cs), <<>>)
  ELSE TokensOf(Tail(cs), Append(token, Head(cs)))

\* post with the value of field name replaced
WithField(post, name, value) ==
  JObj([i \in 1..Len(post.a) |-> IF post.a[i].s = name THEN KV(name, value) ELSE post.a[i]])

\* the field that holds the hashtags of a post as a non-empty string, <<>> if none
TagStringField(post) ==
  IF Get(post, "hashtags").t = "chars" /\ Get(post, "hashtags").a # <<>> THEN <<"hashtags">>
  ELSE IF ~Truthy(Get(post, "hashtags")) /\ Get(post, "tags").t = "chars"
          /\ Get(post, "tags").a # <<>> THEN <<"tags">>
  ELSE <<>>

\* C19: every card shown for a post whose hashtags are one non-empty string
\* shows the tokens of that string, in order and none of them empty: the
\* same hashtags as the card of the same post with the sequence of those
\* tokens in place of the string.
C19_StringTokenizesAsSequence ==
  \A i \in 1..Len(Cards) :
    TagStringField(Cards[i].post) # <<>> =>
      LET name == TagStringField(Cards[i].post)[1]
          tokens == TokensOf(Get(Cards[i].post, name).a, <<>>)
      IN /\ Cards[i].card.hashtags = tokens
         /\ Cards[i].card.hashtags = PostCard(WithField(Cards[i].post, name, JArr(tokens))).hashtags
         /\ \A j \in 1..Len(Cards[i].card.hashtags) : Cards[i].card.hashtags[j].a # <<>>

\* C19 witness: a card for the hashtags string " a\t#" (leading white
\* space, a tab between the tokens) shows the two tokens a and #
C19_Witness ==
  \E i \in 1..Len(Cards) :
    /\ Get(Cards[i].post, "hashtags") = JChars(<<Space, "a", Tab, "#">>)
    /\ Cards[i].card.hashtags = <<JChars(<<"a">>), JChars(<<"#">>)>>

\* the request of stream s was handled by the local path with a backend/.env
\* of two lines; the second line
Merged(s) == route[s] = "local" /\ envOf[s].file \notin {<<>>, <<Unreadable>>}

SecondLine(s) == SubSeq(envOf[s].file[1], Len(EarlierLine) + 2, Len(envOf[s].file[1]))

\* line up to its first equals sign, and after it
EqualsAt(line) ==
  IF \E i \in 1..Len(line) : line[i] = "="
  THEN CHOOSE i \in 1..Len(line) : line[i] = "=" /\ \A j \in 1..(i - 1) : line[j] # "="
  ELSE 0

Before(line) == SubSeq(line, 1, EqualsAt(line) - 1)

After(line) == SubSeq(line, EqualsAt(line) + 1, Len(line))

\* a key: a letter followed by letters and digits
IsKey(cs) ==
  /\ cs # <<>>
  /\ cs[1] = "K"
  /\ \A i \in 1..Len(cs) : cs[i] \in {"K", "1"}

\* a value as both forms can write it: no white space at its ends, not
\* itself between quotes
IsValue(cs) ==
  \/ cs = <<>>
  \/ /\ cs[1] # Space
     /\ cs[Len(cs)] # Space
     /\ ~(cs[1] \in {DQ, SQ} /\ cs[Len(cs)] = cs[1])

\* the line has no key=value pattern: no equals sign, or no key before it
NoPattern(line) == EqualsAt(line) = 0 \/ ~IsKey(Trim(Before(line)))

\* the environment before the second line: the base environment,
\* PYTHONPATH, and K1 from the first line
EarlierEnv(s) == (<<"K", "1">> :> <<"K">>) @@ (<<"PYTHONPATH">> :> <<"src">>) @@ envOf[s].base

\* C20: in the environment merged for a local request, a second line
\* KEY=value stores value for KEY, a second line KEY="value" stores the same
\* value for KEY, and a second line without a key=value pattern leaves the
\* environment as it was before that line: the keys of the base environment
\* and of the first line unchanged.
C20_QuotedAndPlainStoreSameValue ==
  \A s \in Ids :
    Merged(s) =>
      LET line == SecondLine(s)
          key == Before(line)
          rest == After(line)
          env == envOf[s].env
      IN /\ (EqualsAt(line) # 0 /\ IsKey(key) /\ IsValue(rest)) =>
              /\ key \in DOMAIN env
              /\ env[key] = rest
         /\ (/\ EqualsAt(line) # 0 /\ IsKey(key) /\ Len(rest) >= 2
             /\ rest[1] = DQ /\ rest[Len(rest)] = DQ
             /\ IsValue(SubSeq(rest, 2, Len(rest) - 1))) =>
              /\ key \in DOMAIN env
              /\ env[key] = SubSeq(rest, 2, Len(rest) - 1)
         /\ NoPattern(line) => env = EarlierEnv(s)

\* C20 witness: backend/.env is K1=K followed by K="1" while the base
\* environment sets K to 11: K is stored as 1 without the quotes, K1 is
\* the value of the first line
C20_Witness ==
  \E s \in Ids :
    /\ Merged(s)
    /\ SecondLine(s) = <<"K", "=", DQ, "1", DQ>>
    /\ <<"K">> \in DOMAIN envOf[s].base
    /\ envOf[s].base[<<"K">>] = <<"1", "1">>
    /\ envOf[s].env[<<"K">>] = <<"1">>
    /\ envOf[s].env[<<"K", "1">>] = <<"K">>
    /\ envOf[s].env[<<"PYTHONPATH">>] = <<"src">>

\* the environment the merge starts from: process.env with PYTHONPATH src
StartEnv(s) == (<<"PYTHONPATH">> :> <<"src">>) @@ envOf[s].base

\* the keys that the well-formed lines of the backend/.env of s name
WellFormedKeys(s) ==
  IF ~Merged(s) THEN {}
  ELSE {<<"K", "1">>} \cup
       (IF NoPattern(SecondLine(s)) THEN {} ELSE {Trim(Before(SecondLine(s)))})

\* C21: the environment merge of a local request raises no error whether
\* backend/.env is absent, unreadable or holds any text; the result keeps
\* every key of the environment it starts from, differs from it only at keys
\* that well-formed lines name, and is that environment unchanged when
\* backend/.env is absent or unreadable.
C21_MergeNeverFails ==
  \A s \in Ids :
    route[s] = "local" =>
      LET env == envOf[s].env IN
      /\ ~envOf[s].threw
      /\ raised[s] = {}
      /\ DOMAIN StartEnv(s) \subseteq DOMAIN env
      /\ \A k \in DOMAIN env \ WellFormedKeys(s) : k \in DOMAIN StartEnv(s) /\ env[k] = StartEnv(s)[k]
      /\ ~Merged(s) => env = StartEnv(s)

\* C21 witness: backend/.env cannot be read, and the job is launched with
\* the starting environment, PYTHON_BIN of process.env included
C21_Witness ==
  \E s \in Ids :
    /\ route[s] = "local"
    /\ envOf[s].file = <<Unreadable>>
    /\ ~envOf[s].threw
    /\ <<"PYTHON_BIN">> \in DOMAIN envOf[s].env
    /\ envOf[s].env = StartEnv(s)
    /\ proc[s] = "running"

\* BACKEND_URL holds something other than white space
NonBlank == \E i \in 1..Len(BACKEND_URL) : BACKEND_URL[i] # " "

\* the route has handled the request of stream s
Handled22(s) == route[s] \notin {"none", "pending"}

\* the address the claim names for the request of stream s: BACKEND_URL
\* without the white space around it and without a trailing slash, /run,
\* and the topic of the request, if it has one, as the query parameter
RunAddress(s) ==
  LET b == Trim(BACKEND_URL)
      tp == TopicOf(query[s])
  IN (IF b[Len(b)] = "/" THEN SubSeq(b, 1, Len(b) - 1) ELSE b)
     \o <<"/run">>
     \o (IF tp = <<>> THEN <<>> ELSE <<"?topic=">> \o encodeURIComponent(tp))

\* C22: when BACKEND_URL is not blank, the stream route starts no local
\* process and reads no backend/.env; for every request it handles it issues
\* exactly one request, to <base>/run with the topic as query parameter, the
\* status it returns is the status the remote runner answered with, and the
\* frames of its response are the frames the remote runner wrote, in order
\* and unchanged.
C22_RemoteModePassesThrough ==
  NonBlank =>
    \A s \in Ids :
      /\ route[s] # "local"
      /\ proc[s] = "none" /\ job[s] = <<>> /\ tried[s] = <<>>
      /\ envOf[s] = <<>>
      /\ Handled22(s) =>
           /\ Len(upstream[s]) = 1
           /\ upstream[s][1].target = RunAddress(s)
           /\ upstream[s][1].remote # "none" => upstream[s][1].status = upstream[s][1].remote
           /\ sent[s] = produced[s]

\* C22 witness: BACKEND_URL is " http://b/ ", the request carries the topic
\* t, the remote runner answered 200 and wrote two frames, and both are in
\* the response as written
C22_Witness ==
  \E s \in Ids :
    /\ BACKEND_URL = <<" ", "http://b", "/", " ">>
    /\ route[s] = "proxy"
    /\ upstream[s] = <<[target |-> <<"http://b", "/run", "?topic=", "t">>,
                        remote |-> "200", status |-> "200"]>>
    /\ Len(produced[s]) = 2
    /\ sent[s] = produced[s]
    /\ proc[s] = "none"

\* the request carries no topic parameter, or a topic parameter that is empty
NoTopic(q) == q = Absent \/ q = <<>>

\* the launch configurations of two local requests agree apart from what the
\* request itself put into the environment
SameServer(s1, s2) ==
  /\ DOMAIN envOf[s1] = DOMAIN envOf[s2]
  /\ \A f \in DOMAIN envOf[s1] \ {"TOPIC"} : envOf[s1][f] = envOf[s2][f]

\* TOPIC as the server's own environment sets it
OwnTopic(s) ==
  IF "env" \in DOMAIN envOf[s] /\ <<"TOPIC">> \in DOMAIN envOf[s].env
  THEN envOf[s].env[<<"TOPIC">>]
  ELSE Absent

\* what the route did for one request without a topic: the remote target has
\* no query, TOPIC is the server's own, the first frame says so
TreatedAsNoTopic(s) ==
  /\ route[s] = "proxy" =>
       /\ Len(upstream[s]) = 1
       /\ \A i \in 1..Len(upstream[s][1].target) : upstream[s][1].target[i] # "?topic="
  /\ route[s] = "local" =>
       /\ envOf[s].TOPIC = OwnTopic(s)
       /\ sent[s][1] = <<"data: ", "No topic provided. Backend will use default.", LF, LF>>

\* two requests without a topic on the same server are answered alike
TreatedAlike(s1, s2) ==
  /\ route[s1] = "proxy" /\ route[s2] = "proxy" => upstream[s1] = upstream[s2]
  /\ (route[s1] = "local" /\ route[s2] = "local" /\ SameServer(s1, s2)) =>
       /\ envOf[s1] = envOf[s2]
       /\ (produced[s1] = produced[s2] /\ exited[s1] = exited[s2]) => sent[s1] = sent[s2]

\* the page starts a run while the topic field is empty
RunsWithoutTopic == created' = created + 1 /\ es'[created'] = "open" /\ topic = <<>>

\* C23: a request without a topic parameter and a request with an empty
\* topic parameter are treated alike in both modes: the remote target has no
\* query, TOPIC is not set from the request, the first frame reports that no
\* topic was provided, and two such requests on the same server get the same
\* target, the same launch environment and, for the same output of the job,
\* the same frames; the page builds the request URL without a parameter
\* whenever its topic is empty, and never builds an empty parameter.
C23_NoTopicAndEmptyTopicAlike ==
  /\ [](\A s1 \in Ids :
          /\ (es[s1] # "none" /\ route[s1] # "none") => query[s1] # <<>>
          /\ NoTopic(query[s1]) =>
               /\ TreatedAsNoTopic(s1)
               /\ \A s2 \in Ids : NoTopic(query[s2]) => TreatedAlike(s1, s2))
  /\ [][RunsWithoutTopic => query'[created'] = Absent]_vars

\* C23 witness: one request without the parameter and one with an empty
\* parameter, both launched on a server whose own environment sets TOPIC to
\* d; both jobs wrote a line and both responses hold the same frames
C23_Witness ==
  /\ query[1] = Absent /\ query[2] = <<>>
  /\ route[1] = "local" /\ route[2] = "local"
  /\ envOf[1].TOPIC = <<"d">> /\ envOf[2].TOPIC = <<"d">>
  /\ produced[1] = <<<<"a", LF>>>> /\ produced[2] = produced[1]
  /\ sent[1] = sent[2]
  /\ Len(sent[1]) > 5

\* the name matches ^[A-Za-z0-9._-]+\.(md|json|txt)$: a non-empty stem of
\* letters and dots, a dot, one of the three extensions, and nothing else
MatchesPattern(name) ==
  \E k \in 1..Len(name) :
    /\ \A i \in 1..k : name[i] \in {"a", ".", "md", "json", "txt"}
    /\ Len(name) = k + 2
    /\ name[k + 1] = "."
    /\ name[k + 2] \in {"md", "json", "txt"}

\* C24: the file route answers every name that does not match the pattern
\* with status 400 without having fetched from the remote runner or touched
\* the disk, and for a name that matches, every fetch and every disk access
\* it makes names the file exactly as given.
C24_InvalidNameRejectedFirst ==
  \A i \in 1..Len(fileLog) :
    LET r == fileLog[i] IN
    /\ ~MatchesPattern(r.name) => r.status = "400" /\ r.effects = <<>>
    /\ MatchesPattern(r.name) =>
         /\ r.effects # <<>>
         /\ r.status # "400"
         /\ \A j \in 1..Len(r.effects) :
              r.effects[j].arg =
                (IF r.effects[j].op = "fetch" THEN <<"http://b", "/file/">>
                 ELSE <<"/", "app", "/", "backend", "/">>) \o r.name

\* C24 witness: the name ..md is accepted in local mode and the file
\* /app/backend/..md is looked up and read
C24_Witness ==
  \E i \in 1..Len(fileLog) :
    /\ fileLog[i].name = <<".", ".", "md">>
    /\ fileLog[i].status = "200"
    /\ fileLog[i].effects =
         <<Effect("existsSync", <<"/", "app", "/", "backend", "/", ".", ".", "md">>),
           Effect("readFileSync", <<"/", "app", "/", "backend", "/", ".", ".", "md">>)>>

\* the content type that the extension of the name stands for
Inferred(name) ==
  CASE Last(name) = "md" -> "text/markdown; charset=utf-8"
    [] Last(name) = "json" -> "application/json; charset=utf-8"
    [] Last(name) = "txt" -> "text/plain; charset=utf-8"

\* C25: every response of the file route with status 200 carries the content
\* type the origin supplied when it supplied one, and otherwise the content
\* type inferred from the extension of the name (markdown for .md, JSON for
\* .json, plain text for .txt), in local and in remote mode.
C25_ContentTypeSuppliedOrInferred ==
  \A i \in 1..Len(fileLog) :
    LET r == fileLog[i] IN
    r.status = "200" =>
      r.ctype = IF r.origin # NoType THEN r.origin ELSE Inferred(r.name)

\* the step starts runFlow while the server is known to be offline
RefusedOffline == serverStatus = "offline" /\ error' = OfflineErr /\ created' = created

\* the step hands the next queued event to the open EventSource it belongs to
Fires(type) ==
  /\ tasks # <<>> /\ tasks' = Tail(tasks)
  /\ Head(tasks).type = type
  /\ es[Head(tasks).es] = "open"

\* a status message that reports the failure of the job
FailureReported == Fires(<<"message">>) /\ StatusOf(Head(tasks).data) = "failed"

\* the transport of the current stream is torn down while the latch is unset
UnlatchedTeardown == Fires(<<"error">>) /\ ~completedRef

\* an artifact fetch settles, whatever its result and whatever the text holds
FetchSettles == \E s \in Ids : cont[s].pc \in {"content", "report"} /\ cont'[s].pc # cont[s].pc

\* C26: in every step the user-visible error becomes or changes to a message
\* only when a run is refused because the server is offline, when a status
\* message reports the failure of the job, or when the transport is torn down
\* while the completion latch is unset; a step in which an artifact fetch
\* settles (failed, or with a text that cannot be normalized) and an error
\* event that arrives while the latch is set or the stream is closed leave
\* the error as it is.
C26_ErrorOnlyForLaunchOrUnlatchedTeardown ==
  [][/\ (error' # error /\ error' # NoError) =>
          (RefusedOffline \/ FailureReported \/ UnlatchedTeardown)
     /\ FetchSettles => error' = error
     /\ (ErrorArrives /\ ~UnlatchedTeardown) => error' = error]_vars

\* C26 witness: the run completed, the fetch of social_posts.json failed, the
\* fetch of the report failed too, an error event of the closed stream was
\* dropped, and no error is shown
C26_Witness ==
  \E s \in Ids :
    /\ outcome[s] = <<"completed">>
    /\ settled[s] = <<"throw", "notok">>
    /\ lastTask.type = <<"error">> /\ ~lastTask.ran
    /\ ~running
    /\ error = NoError

\* the run of the scenario: started with a topic
ScenarioRun(s) == es[s] # "none" /\ query[s] # Absent

\* the payloads the remote runner wrote for stream s, in order
Written(s) == [i \in 1..Len(produced[s]) |-> <<produced[s][i][2]>>]

\* the final state the scenario names
ScenarioFinal(s) ==
  /\ ~running
  /\ error = NoError
  /\ Truthy(posts) /\ posts.t = "obj" /\ Len(posts.a) = 5
  /\ {posts.a[i].s : i \in 1..5} = {"li", "x", "ig", "fb", "tt"}
  /\ \E i \in 1..Len(messages) :
       messages[i].agent = "Social Analyst" /\ messages[i].content = RawReport
  /\ Len(Written(s)) = 4
  /\ logs = JoinLF(Written(s))

\* C27: a run started with a topic, whose stream holds three plain lines and
\* then the completed message and whose fetches return a document of five
\* platforms and a report, ends, and whenever it has ended (and no later run
\* was started) running is false,
\* no error is shown, the parsed document has the five platform keys, the
\* report message holds the report, and the log holds the four payloads in
\* the order they were written.
C27_EndToEnd ==
  \A s \in Ids :
    /\ [](s = created /\ ScenarioRun(s) /\ RunEnded(s) /\ outcome[s] # <<>> => ScenarioFinal(s))
    /\ (ScenarioRun(s) ~> (RunEnded(s) /\ outcome[s] = <<"completed">> /\ ScenarioFinal(s)))

\* C27 witness: the run with the topic "AI productivity tools" has ended
\* with the lines a, b, a and the completed message in the log and five
\* platform tabs to show
C27_Witness ==
  \E s \in Ids :
    /\ query[s] = <<"AI productivity tools">>
    /\ RunEnded(s)
    /\ logs = <<"a", LF, "b", LF, "a", LF, TokCompleted>>
    /\ Len(platforms) = 5
    /\ ScenarioFinal(s)


\* the child process of stream s is alive
Alive(s) == proc[s] = "running"

\* the client closed stream s and the server ran cancel() for it
ClosedByClient(s) == conn[s] = "down" /\ ctrl[s] = "cancelled"

\* C28: in local mode the child process of a stream the client closed is not
\* alive once the server has seen the close, and no two job processes are
\* alive at once.
C28_ClosedStreamReleasesProcess ==
  /\ \A s \in Ids : ClosedByClient(s) => ~Alive(s)
  /\ Cardinality({s \in Ids : Alive(s)}) <= 1

\* the step starts a run of the page: a new EventSource becomes the current one
RunStarts == esRef' # esRef /\ esRef' # 0

\* the step hands a status message saying completed or failed to the open
\* EventSource it belongs to
TerminalObserved ==
  Fires(<<"message">>) /\ StatusOf(Head(tasks).data) \in {"completed", "failed"}

\* the step hands an error event to the open EventSource of a run in which
\* no terminal status message was observed
UnfinishedRunFails == Fires(<<"error">>) /\ outcome[Head(tasks).es] = <<>>

\* C29: the completion latch is false in the state a run starts in and as
\* long as the run's stream is the current one; it becomes true only in a
\* step that observes a completed or failed status message, such a step
\* finds it false (it is set at most once per run), and it becomes false
\* again only in the step that starts a new run; hence the transport error
\* of a run without a terminal message is always shown, whatever the latch
\* was after earlier runs.
C29_LatchWriteOncePerRun ==
  /\ [](esRef # 0 => ~completedRef)
  /\ [][/\ RunStarts => ~completedRef'
        /\ (~completedRef /\ completedRef') => TerminalObserved
        /\ TerminalObserved => (~completedRef /\ completedRef')
        /\ (completedRef /\ ~completedRef') => RunStarts
        /\ UnfinishedRunFails => (~completedRef /\ error' = ConnErr)]_vars

\* C29 witness: the first run completed and set the latch, the second run
\* reset it, and the transport error of the second run is shown
C29_Witness ==
  /\ created = 2
  /\ outcome[1] = <<"completed">>
  /\ outcome[2] = <<"error">>
  /\ ~completedRef
  /\ error = ConnErr

\* the page observed a terminal status message of stream s
TerminalSeen(s) == outcome[s] # <<>> /\ Head(outcome[s]) \in {"completed", "failed"}

\* the step takes an event of stream s off the task queue after a terminal
\* status message of that stream was observed
LaterEvent(s) ==
  /\ tasks # <<>> /\ tasks' = Tail(tasks)
  /\ Head(tasks).es = s
  /\ TerminalSeen(s)

\* what the first terminal signal of stream s decided
DecidedByFirst(s) ==
  LET first == Head(StatusEvents(heard[s])).data IN
  /\ outcome[s] = <<StatusOf(first)>>
  /\ completedRef
  /\ StatusOf(first) = "failed" => (error = MessageOf(first) /\ ~running /\ messages = <<>>)
  /\ StatusOf(first) = "completed" => error = NoError

\* C30: when the stream of a run carries more than one terminal signal, the
\* outcome of the run (the latest one) is the one of the first status message
\* the page observed, and a
\* step that takes any later message or event of that stream off the queue
\* changes neither the error, the messages, the latch nor running.
C30_FirstTerminalSignalWins ==
  /\ [](\A s \in Ids : (s = created /\ TerminalSeen(s)) => DecidedByFirst(s))
  /\ [][\A s \in Ids : LaterEvent(s) =>
          /\ error' = error
          /\ messages' = messages
          /\ completedRef' = completedRef
          /\ running' = running
          /\ outcome' = outcome]_vars

\* C30 witness: the stream carried the failed message and then the completed
\* message, both were queued, the second was taken off the queue after the
\* first was observed, and the run is the failed run the first one made it
C30_Witness ==
  \E s \in Ids :
    /\ Len(StatusEvents(heard[s])) = 2
    /\ StatusEvents(heard[s])[1].data = <<TokFailedMsg>>
    /\ StatusEvents(heard[s])[2].data = <<TokCompleted>>
    /\ tasks = <<>>
    /\ lastTask.es = s /\ lastTask.type = <<"message">> /\ ~lastTask.ran
    /\ outcome[s] = <<"failed">>
    /\ error = "boom"
    /\ ~running

\* C31: whenever running is false the page holds no EventSource, and the
\* EventSource the page holds is never one that was closed.
C31_StreamHeldOnlyWhileRunning ==
  /\ ~running => esRef = 0
  /\ esRef # 0 => es[esRef] = "open"

\* C31 witness: a second run is in progress and holds its open EventSource
\* after the first run ended on a transport error, its EventSource closed
C31_Witness ==
  /\ created = 2
  /\ outcome[1] = <<"error">>
  /\ es[1] = "closed"
  /\ running
  /\ esRef = 2
  /\ es[2] = "open"

\* ------------------------------------------------ page: the earlier Home
\* The file holds an earlier Home before the current one; its runFlow has no
\* server status and no latch, reads the named event done as the end of
\* the job and fetches both artifacts with one Promise.all.
StreamErr == "Stream error. Check backend and .env."

\* runFlow of the earlier Home
runFlowEarlier(cap) ==
  /\ created < cap
  /\ LET s == created + 1 IN
     /\ running' = TRUE
     /\ error' = NoError
     /\ logs' = <<>>
     /\ messages' = <<>>
     /\ es' = [(IF esRef # 0 THEN Closed(esRef) ELSE es) EXCEPT ![s] = "open"]
     /\ conn' = [(IF esRef # 0 THEN Aborted(esRef) ELSE conn) EXCEPT ![s] = "up"]
     /\ esRef' = s
     /\ created' = s
     /\ query' = [query EXCEPT ![s] = QueryOf(topic)]
     /\ route' = [route EXCEPT ![s] = "pending"]
     /\ UNCHANGED <<topic, serverStatus, healthPending, completedRef, cont, mounted, parser, tasks, pipe>>
     /\ UNCHANGED <<BACKEND_URL, upstream, fileLog, envOf, ctrl, proc, job, emitted, raised, histVars, activePlatform>>

\* the Run button: disabled={running}
ClickRun(cap) ==
  /\ mounted
  /\ ~running
  /\ runFlowEarlier(cap)

\* the listener of the named event done, up to its await
ondone(s) ==
  /\ es' = Closed(s)
  /\ conn' = Aborted(s)
  /\ esRef' = 0
  /\ cont' = [cont EXCEPT ![s] = [pc |-> "both", newMessages |-> <<>>]]
  /\ outcome' = [outcome EXCEPT ![s] = Append(@, "completed")]
  /\ fetched' = [fetched EXCEPT ![s] = @ \o <<"social_posts.json", "analytics_summary.md">>]
  /\ UNCHANGED <<running, error, logs>>

\* es.onerror of the earlier Home
onerrorEarlier(s) ==
  /\ error' = StreamErr
  /\ es' = Closed(s)
  /\ conn' = Aborted(s)
  /\ esRef' = 0
  /\ running' = FALSE
  /\ outcome' = [outcome EXCEPT ![s] = Append(@, "error")]
  /\ UNCHANGED <<logs, cont, fetched>>

\* The browser runs the next task for the earlier Home: "message" is
\* appended to the log, "done" and "error" reach their listeners.
DispatchEarlier ==
  /\ tasks # <<>>
  /\ LET t == Head(tasks) IN
     /\ tasks' = Tail(tasks)
     /\ lastTask' = [es |-> t.es, type |-> t.type, ran |-> es[t.es] = "open",
                     latched |-> completedRef]
     /\ IF es[t.es] = "open" /\ t.type = <<"message">>
        THEN /\ logs' = appendLog(logs, t.data)
             /\ UNCHANGED <<running, error, esRef, cont, es, conn, outcome, fetched>>
        ELSE IF es[t.es] = "open" /\ t.type = <<"done">> THEN ondone(t.es)
        ELSE IF es[t.es] = "open" /\ t.type = <<"error">> THEN onerrorEarlier(t.es)
        ELSE UNCHANGED <<running, error, logs, esRef, cont, es, conn, outcome, fetched>>
  /\ UNCHANGED <<messages, topic, serverStatus, healthPending, completedRef, mounted, activePlatform>>
  /\ UNCHANGED <<parser, created, query, pipe, serverVars>>
  /\ UNCHANGED <<sent, tried, produced, closes, heard, settled, parsed, exited>>

\* JSON.stringify(JSON.parse(raw), null, 2), raw itself if it is not JSON
Pretty(raw) ==
  IF JSONparse(raw) # Throw THEN J("pretty", "2", <<JSONparse(raw)>>) ELSE raw

\* the messages the done listener adds for the responses that are ok
BothMessages(r1, r2) ==
  (IF r1.kind = "ok"
   THEN <<[agent |-> "Content Creator", content |-> Pretty(r1.body), parsedPosts |-> Undefined]>>
   ELSE <<>>)
  \o (IF r2.kind = "ok"
      THEN <<[agent |-> "Social Analyst", content |-> r2.body, parsedPosts |-> Undefined]>>
      ELSE <<>>)

\* the done listener with the rejection of Promise.all caught
FetchBothCaught(s, r1, r2) ==
  /\ cont[s].pc = "both"
  /\ cont' = [cont EXCEPT ![s] = Idle]
  /\ settled' = [settled EXCEPT ![s] = @ \o <<r1.kind, r2.kind>>]
  /\ messages' = IF "throw" \in {r1.kind, r2.kind} THEN messages
                 ELSE messages \o BothMessages(r1, r2)
  /\ running' = FALSE
  /\ UNCHANGED <<error, logs, topic, serverStatus, healthPending, esRef, completedRef, mounted, activePlatform>>
  /\ UNCHANGED <<browserVars, netVars, serverVars>>
  /\ UNCHANGED <<sent, tried, produced, closes, heard, outcome, fetched, parsed, lastTask, exited>>

\* Promise.all of the two fetches settles and the done listener goes on: a
\* rejected fetch rejects the await, which nothing catches, and the listener
\* ends there
FetchBoth(s, r1, r2) ==
  /\ cont[s].pc = "both"
  /\ cont' = [cont EXCEPT ![s] = Idle]
  /\ settled' = [settled EXCEPT ![s] = @ \o <<r1.kind, r2.kind>>]
  /\ IF "throw" \in {r1.kind, r2.kind}
     THEN UNCHANGED <<messages, running>>
     ELSE /\ messages' = messages \o BothMessages(r1, r2)
          /\ running' = FALSE
  /\ UNCHANGED <<error, logs, topic, serverStatus, healthPending, esRef, completedRef, mounted, activePlatform>>
  /\ UNCHANGED <<browserVars, netVars, serverVars>>
  /\ UNCHANGED <<sent, tried, produced, closes, heard, outcome, fetched, parsed, lastTask, exited>>

\* what a fetch of an artifact gives: a response that is ok, one that is
\* not, or a rejection
PostsResults == {[kind |-> "ok", body |-> RawPosts], [kind |-> "ok", body |-> Garbage],
                 [kind |-> "notok", body |-> EmptyText], [kind |-> "throw", body |-> EmptyText]}

ReportResults == {[kind |-> "ok", body |-> RawReport],
                  [kind |-> "notok", body |-> EmptyText], [kind |-> "throw", body |-> EmptyText]}

\* the connection of a stream breaks or its response ends
StreamFails == \E s \in Ids : TransportFail(s) \/ StreamEnd(s)

\* Promise.all settles
BothSettle == \E s \in Ids, r1 \in PostsResults, r2 \in ReportResults : FetchBoth(s, r1, r2)

\* Several runs of the earlier Home against local jobs.
NextEarlier ==
  \/ ClickRun(MaxRuns)
  \/ Unmount
  \/ DispatchEarlier
  \/ BothSettle
  \/ \E s \in Ids : RouteGetLocal(s, OrderEnv)
  \/ \E s \in Ids : ProcData(s, <<"a", LF>>)
  \/ \E s \in Ids : ProcClose(s, "0", OrderExists)
  \/ \E s \in Ids : Cancel(s)
  \/ \E s \in Ids : Deliver(s)
  \/ StreamFails

\* The browser runs its tasks, every stream ends or breaks unless the page
\* closed it first, and every fetch settles.
SpecEarlier ==
  InitLocal /\ [][NextEarlier]_vars
  /\ WF_vars(DispatchEarlier) /\ WF_vars(StreamFails) /\ WF_vars(BothSettle)

\* Several runs of the current Home against the remote runner, every fetch
\* with every result.
NextEnds ==
  \/ ClickGenerate(MaxRuns)
  \/ PressEnter(MaxRuns)
  \/ Unmount
  \/ Dispatch
  \/ \E s \in Ids : FetchContent(s, [kind |-> "ok", body |-> RawPosts])
  \/ \E s \in Ids, k \in {"notok", "throw"} : FetchContent(s, [kind |-> k, body |-> <<>>])
  \/ \E s \in Ids : FetchReport(s, [kind |-> "ok", body |-> RawReport])
  \/ \E s \in Ids, k \in {"notok", "throw"} : FetchReport(s, [kind |-> k, body |-> <<>>])
  \/ \E s \in Ids, a \in {"rejects", "ok"} : RouteGetRemote(s, a)
  \/ \E s \in Ids, p \in RemotePayloads : RemoteFrame(s, p)
  \/ \E s \in Ids : RemoteEnd(s)
  \/ \E s \in Ids : Deliver(s)
  \/ StreamFails

\* every artifact fetch of the current Home settles: no continuation waits
\* at "content" or at "report" forever
FetchesSettle == \A s \in Ids : []<>(cont[s].pc # "content") /\ []<>(cont[s].pc # "report")

SpecEnds ==
  InitRerun /\ [][NextEnds]_vars /\ WF_vars(Dispatch) /\ WF_vars(StreamFails) /\ FetchesSettle

\* the page was unmounted while stream s was open: the cleanup closed it and
\* nothing of it is delivered any more
Abandoned(s) == ~mounted /\ es[s] = "closed" /\ outcome[s] = <<>>

\* C32: every started run ends: while the browser runs its tasks, every
\* stream delivers a terminal message or a transport error, and every fetch
\* resolves or rejects, a run whose stream is open is followed by a state in
\* which running is false (or the page was unmounted with the stream open).
C32_EveryStartedRunEnds ==
  \A s \in Ids : (es[s] = "open") ~> (~running \/ Abandoned(s))

\* the route closed the response stream of the local job of stream s
RouteClosed(s) == route[s] = "local" /\ closes[s] >= 1

\* C33: in the local path, once the route closed the response stream (after
\* the frame event: error or the frame event: done), no step enqueues a
\* frame for that stream or attempts to: what was written stays as it is,
\* its last frame is the terminal one, and no enqueue raises.
C33_NoFrameAfterClose ==
  /\ [](\A s \in Ids : RouteClosed(s) =>
          \/ EndsWith(sent[s], writeEvent(<<"error">>, <<SpawnErr>>))
          \/ \E code \in Codes : EndsWith(sent[s], writeEvent(<<"done">>, CodeText(code))))
  /\ [][\A s \in Ids : RouteClosed(s) =>
          /\ sent'[s] = sent[s]
          /\ produced'[s] = produced[s]
          /\ raised'[s] = raised[s]
          /\ closes'[s] = closes[s]]_vars

\* C33 witness: the job wrote a chunk, exited, the route wrote the frame
\* event: done and closed the stream, and the client has since received every
\* frame and run the task of the done event
C33_Witness ==
  \E s \in Ids :
    /\ RouteClosed(s)
    /\ produced[s] # <<>>
    /\ EndsWith(sent[s], writeEvent(<<"done">>, <<"0">>))
    /\ pipe[s] = <<>>
    /\ lastTask.es = s /\ lastTask.type = <<"done">>

\* the completed message of stream s was observed and an artifact fetch of
\* that run is outstanding
Fetching(s) == cont[s].pc # "idle"

\* the step ends the artifact fetches of the run of stream s
FetchesEnd(s) == Fetching(s) /\ cont'[s].pc = "idle"

\* C34: between the completed message of a run and the end of its artifact
\* fetches running is true and no step starts a run, so the run is the most
\* recently started one when its fetches end, and the step that ends them
\* writes its messages and running = false into that run.
C34_ResultsBelongToLatestRun ==
  /\ [](\A s \in Ids : Fetching(s) => (running /\ esRef = 0 /\ s = created))
  /\ [][\A s \in Ids :
          /\ Fetching(s) => created' = created
          /\ FetchesEnd(s) =>
               /\ s = created'
               /\ ~running'
               /\ Len(messages') = 2
               /\ messages'[1] = cont[s].newMessages[1]
               /\ messages'[2].agent = "Social Analyst"]_vars

\* C34 witness: the first run completed and its results were written, a
\* second run was started after that, completed in turn, and its fetches
\* are outstanding with the messages of the first run gone
C34_Witness ==
  /\ created = 2
  /\ outcome[1] = <<"completed">>
  /\ Len(settled[1]) = 2
  /\ Fetching(2)
  /\ messages = <<>>
  /\ running

====
